---- MODULE Spec2Model ----
(***************************************************************************)
(* A model of the ureact reconciler (src/src/render.ts), its hook state    *)
(* (src/unnamed/part_015, the hooks module render.ts is built against) and *)
(* the vnode helpers (src/src/jsx.ts, src/src/diff-utils.ts).              *)
(*                                                                         *)
(* JavaScript runs every handler to completion, so each top-level call     *)
(* (render, a setter call from an event handler, the update microtask, the *)
(* after-paint timer) is one action.  The recursive diff is written as     *)
(* operators that thread a record `s` holding the whole root state; an     *)
(* action commits the record its handler returns.                          *)
(***************************************************************************)
EXTENDS Integers, Sequences, FiniteSets, TLC

VARIABLES
    comps,                \* every Component object ever allocated, by id
    dom,                  \* every DOM node ever created, by id (1 = container)
    rootComponent,        \* Root._rootComponent
    pendingUpdate,        \* Root._pendingUpdate (a Set: insertion ordered)
    pendingLayoutEffects, \* Root._pendingLayoutEffects
    pendingEffects,       \* Root._pendingEffects
    microtasks,           \* queued `() => this._flushUpdates()` microtasks: the
                          \* Root of each, in the order they were queued
    timers,               \* armed scheduleAfterRender callbacks, likewise
    currentError,         \* Root._currentError
    currentHooks,         \* the module variable currentHooks of the hooks module
    gen,                  \* number of vnode-creating calls so far (vnode identity)
    steps,                \* number of top-level calls made so far
    tops,                 \* the vnodes the caller may pass to render()
    actDepth,             \* the module variable actDepth of act
    callbacks,            \* act callbacks that were called and have not returned
    dirtyRootsEnabled,    \* dirtyRoots.enabled
    activeRoots,          \* whether activeRoots holds a Root for the container
    roots,                \* number of Root objects constructed so far (history)
    rootBase,             \* number of components when the Root was constructed
    retired,              \* the Roots constructed before the last one, which
                          \* their callbacks and the setters of their
                          \* components still reach
    refs,                 \* `current` of the ref objects the caller created
    log                   \* what the last top-level call did (history)

vars == <<comps, dom, rootComponent, pendingUpdate, pendingLayoutEffects,
          pendingEffects, microtasks, timers, currentError, currentHooks, gen,
          steps, tops, actDepth, callbacks, dirtyRootsEnabled, activeRoots,
          roots, rootBase, retired, refs, log>>

-----------------------------------------------------------------------------
(* Bounds of the exploration.                                              *)

\* Most top-level calls (render, setter, microtask, timer) in one behaviour.
MaxSteps == 5
\* Largest value a state cell may take.
MaxCount == 2
\* Most act calls open at once, nested or awaiting their promise.
MaxActDepth == 2

-----------------------------------------------------------------------------
(* VNodes (src/src/jsx.ts).                                                *)

\* `let key = null` in createElement: the key of an element without one.
NullKey == -1

\* Ids standing for "no object".
NoComp == -1          \* a null Component reference
EmptyComp == 0        \* the frozen emptyComponent singleton
NoNode == 0           \* a null DOM node reference

Null == [k |-> "empty", v |-> "null"]
Undefined == [k |-> "empty", v |-> "undefined"]
False == [k |-> "empty", v |-> "false"]
True == [k |-> "empty", v |-> "true"]
Str(x) == [k |-> "text", ty |-> "string", s |-> x]
Num(n) == [k |-> "text", ty |-> "number", n |-> n]
Arr(items) == [k |-> "arr", items |-> items]

\* createElement(type, {key, ...p}, ...children).  `ch` is props.children as
\* createElement stores it: the third argument verbatim when there is exactly
\* one child, the array of children when there are several, undefined when
\* there is none.  `oid` stands for the identity of the object.
h(type, key, p, ch, oid) ==
    [k |-> "elem", type |-> type, key |-> key, p |-> p, ch |-> ch, oid |-> oid]

NoProps == [x |-> 0]

isValidElement(v) == v.k = "elem"
isEmptyVNode(v) == v.k = "empty"
isTextVNode(v) == v.k = "text"

\* The component functions of the test programs; a vnode type names one of
\* them or is the tag of a host element.
Functions ==
    {"Fragment", "ErrorBoundary", "ProviderA", "ProviderB", "Counter", "Toggle",
     "Fragile", "Parent", "SyncChild", "LayoutSync", "SyncParent", "Widget",
     "LayoutWidget", "Pair", "ReducerCounter", "Both", "Bomb", "LayoutBomb",
     "HookSeq", "Consumer", "Late", "ContextTest", "FusedConsumer", "App",
     "Memo", "MemoTally", "Echo"}

\* typeof vnode.type === "string"
isHostType(t) == t \notin Functions

\* Number.prototype.toString for the naturals, String.prototype.toString.
DigitChar == <<"0", "1", "2", "3", "4", "5", "6", "7", "8", "9">>
RECURSIVE NumToString(_)
NumToString(n) ==
    IF n < 10 THEN DigitChar[n + 1]
    ELSE NumToString(n \div 10) \o DigitChar[(n % 10) + 1]
toString(v) == IF v.ty = "number" THEN NumToString(v.n) ELSE v.s

\* JavaScript truthiness of a children value, as tested by `if (vnodes)`.
Truthy(v) ==
    CASE v.k = "empty" -> v.v = "true"
      [] v.k = "text" -> IF v.ty = "number" THEN v.n # 0 ELSE v.s # ""
      [] OTHER -> TRUE

\* `a === b` on vnode children.  Primitives compare by value, elements by
\* object identity (`oid` makes structurally equal objects distinct).
StrictEq(a, b) == a = b

\* `x ?? null`, `x != null`.
IsNullish(v) == v.k = "empty" /\ v.v \in {"null", "undefined"}

vnodeKey(v) == IF isValidElement(v) THEN v.key ELSE NullKey

RECURSIVE FlatAll(_)
FlatAll(items) ==
    IF items = <<>> THEN <<>>
    ELSE LET x == Head(items)
         IN (IF x.k = "arr" THEN FlatAll(x.items) ELSE <<x>>)
            \o FlatAll(Tail(items))

\* flattenChildren: a non-array is a one-element list; nested arrays are
\* flattened depth first.
flattenChildren(children) ==
    IF children.k # "arr" THEN <<children>> ELSE FlatAll(children.items)

\* The same vnode expression evaluated again: equal structure, new objects.
RECURSIVE Stamp(_, _)
StampAll(items, oid) == [i \in 1..Len(items) |-> Stamp(items[i], oid)]
Stamp(v, oid) ==
    CASE v.k = "elem" -> [v EXCEPT !.oid = oid, !.ch = Stamp(v.ch, oid)]
      [] v.k = "arr" -> [v EXCEPT !.items = StampAll(v.items, oid)]
      [] OTHER -> v

-----------------------------------------------------------------------------
(* The host tree: the part of the DOM API the reconciler calls.            *)

NewNode(tag, data) ==
    [tag |-> tag, data |-> data, attr |-> NoProps, parent |-> NoNode, kids |-> <<>>]

IndexOf(seq, x) ==
    IF \E i \in 1..Len(seq) : seq[i] = x
    THEN CHOOSE i \in 1..Len(seq) : seq[i] = x /\ \A j \in 1..(i - 1) : seq[j] # x
    ELSE 0

Without(seq, x) == SelectSeq(seq, LAMBDA y : y # x)

InsertAt(seq, i, x) == SubSeq(seq, 1, i - 1) \o <<x>> \o SubSeq(seq, i, Len(seq))

\* node.remove()
DomRemove(d, n) ==
    IF d[n].parent = NoNode THEN d
    ELSE [d EXCEPT ![d[n].parent].kids = Without(@, n), ![n].parent = NoNode]

\* parent.insertBefore(node, before); before = NoNode appends.
DomInsertBefore(d, parent, n, before) ==
    LET d1 == DomRemove(d, n)
        at == IF before = NoNode THEN Len(d1[parent].kids) + 1
              ELSE IndexOf(d1[parent].kids, before)
    IN [d1 EXCEPT ![parent].kids = InsertAt(@, at, n), ![n].parent = parent]

nextSibling(d, n) ==
    IF d[n].parent = NoNode THEN NoNode
    ELSE LET ks == d[d[n].parent].kids
             i == IndexOf(ks, n)
         IN IF i < Len(ks) THEN ks[i + 1] ELSE NoNode

firstChild(d, p) == IF d[p].kids = <<>> THEN NoNode ELSE d[p].kids[1]

-----------------------------------------------------------------------------
(* Root state threaded through one top-level call.                         *)
(*   exc : the exception in flight ("" when none); an operator entered     *)
(*         with an exception in flight does nothing, which is how a throw  *)
(*         skips the rest of the calling code up to the next catch.        *)
(*   ret : the value returned by the last call.                            *)

TASK_UPDATE == 0
TASK_RUN_EFFECTS == 1
TASK_RUN_LAYOUT_EFFECTS == 2

NoLog ==
    [op |-> "init", arg |-> 0, invoked |-> <<>>, inserts |-> 0, removes |-> 0,
     threw |-> FALSE, flushed |-> <<>>, ranCancelled |-> FALSE,
     bailed |-> <<>>, lateSched |-> FALSE, queued |-> <<>>, wasMounted |-> FALSE,
     cell |-> 0, upd |-> [fn |-> FALSE, v |-> 0],
     raised |-> <<>>, walks |-> <<>>, handled |-> <<>>, unhandled |-> <<>>,
     exc |-> "",
     slotOk |-> TRUE, ctx |-> <<>>, notified |-> <<>>,
     actThrew |-> FALSE, promises |-> 0, result |-> FALSE, action |-> "",
     wrapped |-> <<>>, lists |-> <<>>, matched |-> <<>>, unmounts |-> <<>>,
     bags |-> <<>>, equal |-> <<>>]

St ==
    [comps |-> comps, dom |-> dom, root |-> rootComponent, pu |-> pendingUpdate,
     ple |-> pendingLayoutEffects, pe |-> pendingEffects,
     microtasks |-> microtasks, timers |-> timers, err |-> currentError,
     cur |-> currentHooks, gen |-> gen, enabled |-> dirtyRootsEnabled,
     active |-> activeRoots, roots |-> roots, base |-> rootBase, refs |-> refs,
     retired |-> retired, self |-> roots,
     exc |-> "", ret |-> 0, inFlush |-> FALSE,
     log |-> [NoLog EXCEPT !.actThrew = log.actThrew, !.promises = log.promises]]

Throw(s, msg) == IF s.exc # "" THEN s ELSE [s EXCEPT !.exc = msg]

\* throw new Error(msg) in code that runs inside a call of user code; the
\* history keeps the errors raised there, in order.
Raise(s, msg) ==
    IF s.exc # "" THEN s
    ELSE [s EXCEPT !.exc = msg, !.log.raised = Append(@, msg)]
Return(s, x) == IF s.exc # "" THEN s ELSE [s EXCEPT !.ret = x]

\* new ContextProvider(type, initialValue); a listener is the pair of the
\* component and the cell whose useContext call made it.  NoProvider is the
\* null of Component.contextProvider.
ContextProvider(type, initialValue) ==
    [type |-> type, value |-> initialValue, listeners |-> <<>>]
NoProvider == ContextProvider("", 0)

\* The object literal `newComponent` of _renderTree.
NewComponent(parent, depth, vnode) ==
    [parent |-> parent, depth |-> depth, vnode |-> vnode, output |-> <<>>,
     dom |-> NoNode, hooks |-> <<>>, hasHooks |-> FALSE, hidx |-> -1,
     contextProvider |-> NoProvider, invokedWith |-> NoProps, owner |-> 0,
     domRootsNull |-> TRUE, domRoots |-> <<>>,
     nrender |-> 0]

\* The fields of a component, the frozen emptyComponent included.
Output(s, c) == IF c = EmptyComp THEN <<>> ELSE s.comps[c].output
Dom(s, c) == IF c = EmptyComp THEN NoNode ELSE s.comps[c].dom
DomRootsNull(s, c) == IF c = EmptyComp THEN TRUE ELSE s.comps[c].domRootsNull
DomRoots(s, c) == IF c = EmptyComp THEN <<>> ELSE s.comps[c].domRoots
VNodeOf(s, c) == IF c = EmptyComp THEN Null ELSE s.comps[c].vnode

\* The nodes forEachDomRoot visits, in order.
forEachDomRoot(s, c) ==
    IF Dom(s, c) # NoNode THEN <<Dom(s, c)>>
    ELSE IF ~DomRootsNull(s, c) THEN DomRoots(s, c)
    ELSE <<>>

RECURSIVE ConcatRoots(_, _)
ConcatRoots(s, out) ==
    IF out = <<>> THEN <<>>
    ELSE forEachDomRoot(s, Head(out)) \o ConcatRoots(s, Tail(out))

updateDomRoots(s, c) ==
    IF s.exc # "" THEN s
    ELSE [s EXCEPT !.comps[c].domRoots = ConcatRoots(s, s.comps[c].output),
                   !.comps[c].domRootsNull = FALSE]

arraysEqual(a, b) ==
    Len(a) = Len(b) /\ \A i \in 1..Len(a) : b[i] = a[i]

\* document.createTextNode / createElement(NS): a new detached node.
CreateNode(s, tag, data) ==
    IF s.exc # "" THEN s
    ELSE [s EXCEPT !.dom = Append(@, NewNode(tag, data)),
                   !.ret = Len(s.dom) + 1]

\* The props that diffElementProps looks at: every prop but "children" and
\* "ref" ("x" is the placeholder field of the empty bag NoProps).
ElementProps(props) == DOMAIN props \ {"children", "ref", "x"}

\* diffElementProps(el, oldProps, newProps): the props of oldProps that
\* newProps does not hold are unset, and the props of newProps whose value
\* is not the old one are set; `attr` is what the element holds.
diffElementProps(s, el, prevProps, nextProps) ==
    IF s.exc # "" THEN s
    ELSE [s EXCEPT !.dom[el].attr =
            [prop \in {"x"}
                    \cup (DOMAIN @ \ {q \in ElementProps(prevProps) :
                                         q \notin DOMAIN nextProps})
                    \cup ElementProps(nextProps) |->
                IF prop \in ElementProps(nextProps)
                     /\ (prop \notin DOMAIN prevProps
                           \/ prevProps[prop] # nextProps[prop])
                  THEN nextProps[prop]
                ELSE IF prop \in DOMAIN @ THEN @[prop]
                ELSE 0]]

\* element.append(node)
DomAppend(s, el, n) ==
    IF s.exc # "" THEN s
    ELSE [s EXCEPT !.dom = DomInsertBefore(@, el, n, NoNode),
                   !.log.inserts = @ + 1]

\* node.remove(); the history counts the calls that detach a node.
RemoveNode(s, n) ==
    IF s.exc # "" THEN s
    ELSE [s EXCEPT !.dom = DomRemove(@, n),
                   !.log.removes = IF s.dom[n].parent # NoNode THEN @ + 1 ELSE @]

RECURSIVE RemoveNodes(_, _)
RemoveNodes(s, ns) ==
    IF ns = <<>> THEN s ELSE RemoveNodes(RemoveNode(s, Head(ns)), Tail(ns))

\* Ensure `node` is located right after `after` (or first) in `parent`.
insertNodeAfter(s, node, parent, after) ==
    IF s.exc # "" THEN s
    ELSE LET before == IF after # NoNode THEN nextSibling(s.dom, after)
                       ELSE IF parent = NoNode THEN NoNode
                       ELSE firstChild(s.dom, parent)
         IN IF after = NoNode /\ parent = NoNode
              THEN Throw(s, "TypeError")   \* null.firstChild
            ELSE IF s.dom[node].parent # parent
                    \/ (node # before /\ nextSibling(s.dom, node) # before)
              THEN IF parent = NoNode THEN Throw(s, "TypeError")
                   ELSE IF before # NoNode /\ s.dom[before].parent # parent
                     THEN Throw(s, "NotFoundError")
                   ELSE [s EXCEPT !.dom = DomInsertBefore(@, parent, node, before),
                                  !.log.inserts = @ + 1]
            ELSE s

-----------------------------------------------------------------------------
(* Root._schedule and the queues.                                          *)

SetAdd(q, c) == IF IndexOf(q, c) # 0 THEN q ELSE Append(q, c)
SetDelete(q, c) == Without(q, c)
SetHas(q, c) == IndexOf(q, c) # 0

_schedule(s, c, task) ==
    IF s.exc # "" THEN s
    ELSE CASE task = TASK_UPDATE ->
                [s EXCEPT !.pu = SetAdd(@, c),
                          !.microtasks = IF s.pu = <<>> THEN Append(@, s.self)
                                         ELSE @,
                          !.log.lateSched = @ \/ s.inFlush]
           [] task = TASK_RUN_EFFECTS ->
                [s EXCEPT !.pe = SetAdd(@, c),
                          !.timers = IF s.pe = <<>> THEN Append(@, s.self)
                                     ELSE @]
           [] OTHER ->
                \* Layout effects are run synchronously at the end of render.
                [s EXCEPT !.ple = SetAdd(@, c)]

-----------------------------------------------------------------------------
(* Hook state (src/unnamed/part_015).                                      *)

\* A function value held by a hook cell: an effect body or a cleanup, with
\* the value it closed over.  NoFn is null.  The fields runs, cleans, sched,
\* cancelled and called of a cell are history: how often its body and its
\* cleanup were called, how often it was scheduled, whether it was pending
\* when its component was unmounted, and whether the effect it holds has been
\* called.
NoFn == [fn |-> "", v |-> 0]
Fn(name, v) == [fn |-> name, v |-> v]

StateHook(value) ==
    [type |-> "state", value |-> value, setter |-> "setState", task |-> 0,
     depsNull |-> TRUE,
     deps |-> <<>>, pendingEffect |-> NoFn, cleanup |-> NoFn,
     runs |-> 0, cleans |-> 0, cancelled |-> FALSE, sched |-> 0,
     called |-> FALSE]

EffectHook(task, effect, depsNull, deps) ==
    [type |-> "effect", value |-> 0, task |-> task, depsNull |-> depsNull,
     deps |-> deps, pendingEffect |-> effect, cleanup |-> NoFn,
     runs |-> 0, cleans |-> 0, cancelled |-> FALSE, sched |-> 1,
     called |-> FALSE]

\* A comparison of dependency lists by length only.
depsEqualLength(a, b) == Len(a) = Len(b)

depsEqual(a, b) == Len(a) = Len(b) /\ \A i \in 1..Len(a) : b[i] = a[i]

\* getHookState of the hooks module, which throws when currentHooks is null,
\* and Root._getHookState: the hook state of the rendering component,
\* created on first use.  `c` is the component whose function makes the call.
\* `owner` is the Root whose _schedule the `schedule` callback of the new
\* HookState calls.
getHookState(s, c) ==
    IF s.exc # "" THEN s
    ELSE IF s.cur = NoComp THEN Raise(s, "Hook called outside of component")
    ELSE IF s.comps[s.cur].hasHooks THEN s
    ELSE [s EXCEPT !.comps[s.cur].hasHooks = TRUE, !.comps[s.cur].owner = s.self]

\* A nextHook that takes any cell found at the index for a mismatch.
nextHookAnyCell(s, c, type) ==
    IF s.exc # "" THEN s
    ELSE IF s.comps[c].hidx + 2 <= Len(s.comps[c].hooks)
      THEN Raise([s EXCEPT !.comps[c].hidx = @ + 1],
                 "Hook type mismatch. Hooks must be called in same order on each render.")
    ELSE Return([s EXCEPT !.comps[c].hidx = @ + 1], 0)

\* HookState.nextHook: advance the cursor; ret is the index of the cell, or
\* 0 when the cell does not exist yet.
nextHook(s, c, type) ==
    IF s.exc # "" THEN s
    ELSE LET i == s.comps[c].hidx + 1      \* 0-based index of this hook
             hooks == s.comps[c].hooks
             s1 == [s EXCEPT !.comps[c].hidx = i]
         IN IF i + 1 <= Len(hooks) /\ hooks[i + 1].type # type
              THEN Raise(s1, "Hook type mismatch. Hooks must be called in same order on each render.")
            ELSE Return(s1, IF i + 1 <= Len(hooks) THEN i + 1 ELSE 0)

addHook(s, c, hook) ==
    IF s.exc # "" THEN s ELSE [s EXCEPT !.comps[c].hooks = Append(@, hook)]

resetIndex(s, c) ==
    IF s.exc # "" THEN s ELSE [s EXCEPT !.comps[c].hidx = -1]

\* A state update passed to a setter: a value, or the updater c => c + 1.
SetTo(n) == [fn |-> FALSE, v |-> n]
Increment == [fn |-> TRUE, v |-> 0]

\* A setter that stores its argument without calling an updater function.
setterIgnoringUpdater(s, c, i, newState) ==
    IF s.exc # "" THEN s
    ELSE _schedule([s EXCEPT !.comps[c].hooks[i].value = newState.v], c, TASK_UPDATE)

\* The `setter` closure created by useState for cell i of component c.
setter(s, c, i, newState) ==
    IF s.exc # "" THEN s
    ELSE LET cur == s.comps[c].hooks[i].value
             val == IF newState.fn THEN cur + 1 ELSE newState.v
         IN _schedule([s EXCEPT !.comps[c].hooks[i].value = val], c, TASK_UPDATE)

\* The reducer of the tests of useReducer:
\*     (state, action) => action === "increment" ? state + 1
\*                      : action === "decrement" ? state - 1 : state
reducer(state, action) ==
    CASE action = "increment" -> state + 1
      [] action = "decrement" -> state - 1
      [] OTHER -> state

\* A dispatch that schedules an update whatever the reducer returns.
dispatchAlwaysSchedules(s, c, i, action) ==
    IF s.exc # "" THEN s
    ELSE _schedule([s EXCEPT !.comps[c].hooks[i].value = reducer(@, action)],
                   c, TASK_UPDATE)

\* The `dispatch` closure created by useReducer for cell i of component c.
dispatch(s, c, i, action) ==
    IF s.exc # "" THEN s
    ELSE IF reducer(s.comps[c].hooks[i].value, action) # s.comps[c].hooks[i].value
      THEN _schedule([s EXCEPT !.comps[c].hooks[i].value = reducer(@, action)],
                     c, TASK_UPDATE)
    ELSE s

\* useReducer after nextHook: s.ret is the index of the cell, 0 when new.
UseReducerCell(s, c, initialArg) ==
    IF s.exc # "" THEN s
    ELSE IF s.ret = 0
      THEN Return(addHook(s, c, [StateHook(initialArg) EXCEPT !.setter = "dispatch"]),
                  <<initialArg, Len(s.comps[c].hooks) + 1>>)
    ELSE Return(s, <<s.comps[c].hooks[s.ret].value, s.ret>>)

\* useReducer(reducer, initialArg): ret is <<value, index of the cell>>; the
\* index stands for the dispatch closure.
useReducer(s, c, initialArg) ==
    UseReducerCell(nextHook(getHookState(s, c), c, "state"), c, initialArg)

\* useState after nextHook: s.ret is the index of the cell, 0 when new.
UseStateCell(s, c, initialState) ==
    IF s.exc # "" THEN s
    ELSE IF s.ret = 0
      THEN Return(addHook(s, c, StateHook(initialState)),
                  <<initialState, Len(s.comps[c].hooks) + 1>>)
    ELSE Return(s, <<s.comps[c].hooks[s.ret].value, s.ret>>)

\* useState(initialState): ret is <<value, index of the cell>>; the index
\* stands for the setter closure.
useState(s, c, initialState) ==
    UseStateCell(nextHook(getHookState(s, c), c, "state"), c, initialState)

\* The user's cleanup functions.  All record that they were called.
\*   "unboom" : () => { throw new Error("Cleanup error " + id) }
\*   "unsubscribe" : () => provider.unsubscribe(listener), of a context cell
CallCleanup(s, c, i, f) ==
    IF s.exc # "" THEN s
    ELSE IF f.fn = "unboom"
      THEN Raise([s EXCEPT !.comps[c].hooks[i].cleans = @ + 1],
                 "Cleanup error " \o NumToString(f.v))
    ELSE IF f.fn = "unsubscribe"
      THEN [s EXCEPT !.comps[c].hooks[i].cleans = @ + 1,
                     !.comps[f.v].contextProvider.listeners = Without(@, <<c, i>>)]
    ELSE [s EXCEPT !.comps[c].hooks[i].cleans = @ + 1]

\* The user's effect bodies; ret is what the body returns (a cleanup or
\* NoFn for undefined).
\*   "tick"  : () => { ++effectCount; return () => {...} }
\*   "bare"  : () => { ++effectCount }
\*   "sync"  : () => { setValue(v) }, v the prop the closure captured
\*   "boom"  : () => { throw new Error("Effect error " + id) }
\*   "fuse"  : () => () => { throw new Error("Cleanup error " + id) }
\*   "hooky" : () => { useState(0) }
\* An effect body is called outside every render: the history records
\* whether currentHooks was null then.
CallEffect(s, c, i, f) ==
    IF s.exc # "" THEN s
    ELSE LET s1 == [s EXCEPT !.comps[c].hooks[i].runs = @ + 1,
                             !.comps[c].hooks[i].called = TRUE,
                             !.log.ranCancelled = @ \/ s.comps[c].hooks[i].cancelled,
                             !.log.slotOk = @ /\ s.cur = NoComp]
         IN CASE f.fn = "tick" -> Return(s1, Fn("untick", 0))
              [] f.fn = "sync" -> Return(setter(s1, c, 1, SetTo(f.v)), NoFn)
              [] f.fn = "boom" -> Raise(s1, "Effect error " \o NumToString(f.v))
              [] f.fn = "fuse" -> Return(s1, Fn("unboom", f.v))
              [] f.fn = "hooky" -> Return(getHookState(s1, c), NoFn)
              [] OTHER -> Return(s1, NoFn)

\* hook.cleanup = null
ClearCleanup(s, c, i) ==
    IF s.exc # "" THEN s ELSE [s EXCEPT !.comps[c].hooks[i].cleanup = NoFn]

\* if (hook.cleanup) { hook.cleanup(); hook.cleanup = null }
CleanupCell(s, c, i) ==
    IF s.exc # "" THEN s
    ELSE IF s.comps[c].hooks[i].cleanup # NoFn
      THEN ClearCleanup(CallCleanup(s, c, i, s.comps[c].hooks[i].cleanup), c, i)
    ELSE s

\* hook.pendingEffect = effect; hook.deps = deps ?? null
SetPendingEffect(s, c, i, effect, depsNull, deps) ==
    IF s.exc # "" THEN s
    ELSE [s EXCEPT !.comps[c].hooks[i].pendingEffect = effect,
                   !.comps[c].hooks[i].cancelled = FALSE,
                   !.comps[c].hooks[i].called = FALSE,
                   !.comps[c].hooks[i].sched = @ + 1,
                   !.comps[c].hooks[i].depsNull = depsNull,
                   !.comps[c].hooks[i].deps = deps]

\* useEffect after nextHook: s.ret is the index of the cell, 0 when new.
UseEffectCell(s, c, effect, depsNull, deps, task) ==
    IF s.exc # "" THEN s
    ELSE IF s.ret = 0
      THEN _schedule(addHook(s, c, EffectHook(task, effect, depsNull, deps)), c, task)
    ELSE IF depsNull \/ s.comps[c].hooks[s.ret].depsNull
            \/ ~depsEqual(s.comps[c].hooks[s.ret].deps, deps)
      THEN _schedule(SetPendingEffect(CleanupCell(s, c, s.ret), c, s.ret, effect,
                                      depsNull, deps),
                     c, task)
    ELSE s

\* useEffect(effect, deps, task); depsNull says that deps was omitted.
useEffect(s, c, effect, depsNull, deps, task) ==
    UseEffectCell(nextHook(getHookState(s, c), c, "effect"), c, effect, depsNull,
                  deps, task)

useLayoutEffect(s, c, effect, depsNull, deps) ==
    useEffect(s, c, effect, depsNull, deps, TASK_RUN_LAYOUT_EFFECTS)

\* hook.cleanup = hook.pendingEffect() || null; hook.pendingEffect = null
\* (s.ret is what the body returned).
StoreCleanup(s, c, i) ==
    IF s.exc # "" THEN s
    ELSE [s EXCEPT !.comps[c].hooks[i].cleanup = s.ret,
                   !.comps[c].hooks[i].pendingEffect = NoFn]

\* The cell of useRef; `value` is hook.current.
RefHook(current) ==
    [type |-> "ref", value |-> current, task |-> 0, depsNull |-> TRUE,
     deps |-> <<>>, pendingEffect |-> NoFn, cleanup |-> NoFn,
     runs |-> 0, cleans |-> 0, cancelled |-> FALSE, sched |-> 0,
     called |-> FALSE]

\* The cell of useContext.  `provider` is the component that holds the
\* ContextProvider object of hook.provider, or NoComp when hook.provider is
\* the literal { value: type.defaultValue }, whose value is `value`.
ContextHook(provider, value) ==
    [type |-> "context", value |-> value, task |-> 0, depsNull |-> TRUE,
     deps |-> <<>>, pendingEffect |-> NoFn,
     cleanup |-> IF provider = NoComp THEN NoFn ELSE Fn("unsubscribe", provider),
     runs |-> 0, cleans |-> 0, cancelled |-> FALSE, sched |-> 0,
     called |-> FALSE,
     provider |-> provider]

\* A createContext that hands every type the default value of the other.
DefaultValueOfOther(type) == IF type = "A" THEN 8 ELSE 7

\* createContext(defaultValue): the two context types of the programs and
\* their default values.
DefaultValue(type) == IF type = "A" THEN 7 ELSE 8

\* useRef(initialValue): ret is the index of the cell, which stands for the
\* hook object the function returns.
UseRefCell(s, c, initialValue) ==
    IF s.exc # "" THEN s
    ELSE IF s.ret = 0
      THEN Return(addHook(s, c, RefHook(initialValue)), Len(s.comps[c].hooks) + 1)
    ELSE s

useRef(s, c, initialValue) ==
    UseRefCell(nextHook(getHookState(s, c), c, "ref"), c, initialValue)

\* The cell of useMemo; `value` is hook.result.
MemoHook(result, deps) ==
    [type |-> "memo", value |-> result, task |-> 0, depsNull |-> FALSE,
     deps |-> deps, pendingEffect |-> NoFn, cleanup |-> NoFn,
     runs |-> 0, cleans |-> 0, cancelled |-> FALSE, sched |-> 0,
     called |-> FALSE]

\* hs.addHook({type: "memo", result, deps, cleanup: null}), result in s.ret
AddMemo(s, c, deps) ==
    IF s.exc # "" THEN s ELSE addHook(s, c, MemoHook(s.ret, deps))

\* hook.result = callback(); hook.deps = deps, the result in s.ret
StoreMemo(s, c, i, deps) ==
    IF s.exc # "" THEN s
    ELSE [s EXCEPT !.comps[c].hooks[i].value = s.ret, !.comps[c].hooks[i].deps = deps]

\* registerContext(provider) of the hooks module and the registerContext
\* callback of Root: component.contextProvider = provider.
registerContext(s, c, provider) ==
    IF s.exc # "" THEN s
    ELSE IF s.cur = NoComp THEN Raise(s, "Hook called outside of component")
    ELSE [s EXCEPT !.comps[s.cur].contextProvider = provider]

\* Root._getContext with a loop that stops at the nearest ancestor that
\* provides any context.
RECURSIVE _getContextAnyType(_, _, _)
_getContextAnyType(cps, c, type) ==
    IF cps[c].parent <= 0 THEN NoComp
    ELSE IF cps[cps[c].parent].contextProvider # NoProvider THEN cps[c].parent
    ELSE _getContextAnyType(cps, cps[c].parent, type)

\* Root._getContext: the nearest ancestor of c that provides context of
\* `type`, or NoComp for null.
RECURSIVE _getContext(_, _, _)
_getContext(cps, c, type) ==
    IF cps[c].parent <= 0 THEN NoComp
    ELSE IF cps[cps[c].parent].contextProvider.type = type THEN cps[c].parent
    ELSE _getContext(cps, cps[c].parent, type)

\* this._listeners.forEach((fn) => fn()), each listener being
\* () => hs.schedule(TASK_UPDATE) of its component.
RECURSIVE CallListeners(_, _)
CallListeners(s, ls) ==
    IF s.exc # "" \/ ls = <<>> THEN s
    ELSE CallListeners(_schedule(s, Head(ls)[1], TASK_UPDATE), Tail(ls))

\* A setValue that stores the value and calls no listener.
setValueSilent(s, p, value) ==
    IF s.exc # "" THEN s
    ELSE [s EXCEPT !.comps[p].contextProvider.value = value]

\* ContextProvider.setValue on the provider held by component p; the
\* history keeps the listeners called.
setValue(s, p, value) ==
    IF s.exc # "" THEN s
    ELSE IF s.comps[p].contextProvider.value = value THEN s
    ELSE CallListeners([s EXCEPT !.comps[p].contextProvider.value = value,
                                 !.log.notified =
                                    @ \o s.comps[p].contextProvider.listeners],
                       s.comps[p].contextProvider.listeners)

\* ContextProvider.subscribe
subscribe(s, p, listener) ==
    IF s.exc # "" THEN s
    ELSE [s EXCEPT !.comps[p].contextProvider.listeners = Append(@, listener)]

\* The value of the nearest ancestor of c whose element is a Provider of
\* `type`, read off the component tree, or the default value of the type.
IsProviderOf(v, type) == isValidElement(v) /\ v.type = "Provider" \o type
RECURSIVE ProvidedValue(_, _, _)
ProvidedValue(cps, c, type) ==
    IF cps[c].parent <= 0 THEN DefaultValue(type)
    ELSE IF IsProviderOf(cps[cps[c].parent].vnode, type)
      THEN cps[cps[c].parent].contextProvider.value
    ELSE ProvidedValue(cps, cps[c].parent, type)

\* return hook.provider.value; the history keeps the component, the type,
\* the value returned and the value provided at the time of the call.
ContextValue(s, c, i, type) ==
    IF s.exc # "" THEN s
    ELSE Return([s EXCEPT !.log.ctx =
                    Append(@, <<c, type,
                                IF s.comps[c].hooks[i].provider = NoComp
                                  THEN s.comps[c].hooks[i].value
                                ELSE s.comps[s.comps[c].hooks[i].provider]
                                        .contextProvider.value,
                                ProvidedValue(s.comps, c, type)>>)],
                IF s.comps[c].hooks[i].provider = NoComp
                  THEN s.comps[c].hooks[i].value
                ELSE s.comps[s.comps[c].hooks[i].provider].contextProvider.value)

\* The branch of useContext that creates the cell, given the provider that
\* hs.getContext(type) returned.
NewContextCell(s, c, type, provider) ==
    IF provider # NoComp
      THEN addHook(subscribe(s, provider, <<c, Len(s.comps[c].hooks) + 1>>), c,
                   ContextHook(provider, 0))
    ELSE addHook(s, c, ContextHook(NoComp, DefaultValue(type)))

\* useContext after nextHook: s.ret is the index of the cell, 0 when new.
UseContextCell(s, c, type) ==
    IF s.exc # "" THEN s
    ELSE IF s.ret = 0
      THEN ContextValue(NewContextCell(s, c, type, _getContext(s.comps, c, type)),
                        c, Len(s.comps[c].hooks) + 1, type)
    ELSE ContextValue(s, c, s.ret, type)

\* useContext(type): ret is the value of the provider of the cell.
useContext(s, c, type) ==
    UseContextCell(nextHook(getHookState(s, c), c, "context"), c, type)

\* HookState.run(task): run the pending effects of one component, cell by
\* cell from index i.
RECURSIVE RunFrom(_, _, _, _)
RunFrom(s, c, task, i) ==
    IF s.exc # "" \/ i > Len(s.comps[c].hooks) THEN s
    ELSE RunFrom(IF /\ s.comps[c].hooks[i].type = "effect"
                    /\ s.comps[c].hooks[i].task = task
                    /\ s.comps[c].hooks[i].pendingEffect # NoFn
                   THEN StoreCleanup(CallEffect(s, c, i,
                                                s.comps[c].hooks[i].pendingEffect),
                                     c, i)
                 ELSE s,
                 c, task, i + 1)

run(s, c, task) == RunFrom(s, c, task, 1)

\* HookState.cleanup(): call and clear every cleanup, cell by cell.
RECURSIVE CleanupFrom(_, _, _)
CleanupFrom(s, c, i) ==
    IF s.exc # "" \/ i > Len(s.comps[c].hooks) THEN s
    ELSE CleanupFrom(CleanupCell(s, c, i), c, i + 1)

cleanup(s, c) == CleanupFrom(s, c, 1)

-----------------------------------------------------------------------------
(* The user's component functions: the programs rendered in this model,    *)
(* written after the components of the repository's tests.  ret is the     *)
(* value the function returns; g is the identity of the vnodes it creates. *)
(* Each function is split after its useState call, whose result is s.ret.  *)

\* Fragment = (props) => props.children
Fragment(s, c, props, ch, g) == Return(s, ch)

\* Counter = ({init}) => { const [count, setCount] = useState(init);
\*                         return h("button", {}, count) }
CounterOutput(s, g) ==
    IF s.exc # "" THEN s
    ELSE Return(s, h("button", NullKey, NoProps, Num(s.ret[1]), g))

Counter(s, c, props, ch, g) == CounterOutput(useState(s, c, props.init), g)

\* Toggle = ({init}) => { const [n, setN] = useState(init);
\*            return n === 0 ? null : n === 1 ? h("a") : [h("a"), h("b")] }
ToggleOutput(s, g) ==
    IF s.exc # "" THEN s
    ELSE Return(s,
           IF s.ret[1] = 0 THEN Null
           ELSE IF s.ret[1] = 1 THEN h("a", NullKey, NoProps, Undefined, g)
           ELSE Arr(<<h("a", NullKey, NoProps, Undefined, g),
                      h("b", NullKey, NoProps, Undefined, g)>>))

Toggle(s, c, props, ch, g) == ToggleOutput(useState(s, c, props.init), g)

\* Fragile = ({init}) => { const [n, setN] = useState(init);
\*             return n > 0 ? { n } : h("i", {}, n) }
\* From its first update on it returns an object that is not an element.
FragileOutput(s, g) ==
    IF s.exc # "" THEN s
    ELSE Return(s, IF s.ret[1] > 0 THEN [k |-> "obj"]
                   ELSE h("i", NullKey, NoProps, Num(s.ret[1]), g))

Fragile(s, c, props, ch, g) == FragileOutput(useState(s, c, props.init), g)

\* Parent = ({init}) => { const [count, setCount] = useState(init);
\*            return h("div", {}, count, h(Toggle, {init: 1})) }
ParentOutput(s, g) ==
    IF s.exc # "" THEN s
    ELSE Return(s, h("div", NullKey, NoProps,
                     Arr(<<Num(s.ret[1]),
                           h("Toggle", NullKey, [init |-> 1], Undefined, g)>>), g))

Parent(s, c, props, ch, g) == ParentOutput(useState(s, c, props.init), g)

\* SyncChild = ({count}) => { const [childCount, setChildCount] = useState(count);
\*               if (count !== childCount) { setChildCount(count) }
\*               return childCount }
SyncChildOutput(s, c, props) ==
    IF s.exc # "" THEN s
    ELSE Return(IF props.count # s.ret[1]
                  THEN setter(s, c, s.ret[2], SetTo(props.count))
                ELSE s,
                Num(s.ret[1]))

SyncChild(s, c, props, ch, g) ==
    SyncChildOutput(useState(s, c, props.count), c, props)

\* LayoutSync = ({count}) => { const [shown, setShown] = useState(0);
\*                useLayoutEffect(() => { setShown(count) }, [count]);
\*                return shown }
LayoutSyncOutput(s, c, props) ==
    IF s.exc # "" THEN s
    ELSE Return(useLayoutEffect(s, c, Fn("sync", props.count), FALSE,
                                <<props.count>>),
                Num(s.ret[1]))

LayoutSync(s, c, props, ch, g) == LayoutSyncOutput(useState(s, c, 0), c, props)

\* SyncParent = ({init, child: Child}) => {
\*     const [count, setCount] = useState(init);
\*     return h("button", {}, h(Child, {count})) }
SyncParentOutput(s, props, g) ==
    IF s.exc # "" THEN s
    ELSE Return(s, h("button", NullKey, NoProps,
                     h(props.child, NullKey, [count |-> s.ret[1]], Undefined, g), g))

SyncParent(s, c, props, ch, g) ==
    SyncParentOutput(useState(s, c, props.init), props, g)

\* Widget = ({deps, tag}) => {
\*     const [n, setN] = useState(0);
\*     useEffect(() => { ++ran; return () => { ++cleaned } },
\*               deps === "none" ? undefined : deps === "empty" ? [] : [tag]);
\*     return "w" }
\* LayoutWidget is the same function with useLayoutEffect.
EffectWidget(s, c, props, task) ==
    Return(useEffect(useState(s, c, 0), c, Fn("tick", 0), props.deps = "none",
                     IF props.deps = "tag" THEN <<props.tag>> ELSE <<>>, task),
           Str("w"))

Widget(s, c, props, ch, g) == EffectWidget(s, c, props, TASK_RUN_EFFECTS)

LayoutWidget(s, c, props, ch, g) ==
    EffectWidget(s, c, props, TASK_RUN_LAYOUT_EFFECTS)

\* Pair = () => { const [n, setN] = useState(0);
\*                useEffect(() => { ++ran; return () => { ++cleaned } }, []);
\*                useEffect(() => { ++ran });
\*                return "w" }
Pair(s, c, props, ch, g) ==
    Return(useEffect(useEffect(useState(s, c, 0), c, Fn("tick", 0), FALSE, <<>>,
                               TASK_RUN_EFFECTS),
                     c, Fn("bare", 0), TRUE, <<>>, TASK_RUN_EFFECTS),
           Str("w"))

\* Counter of the useReducer tests:
\*   () => { const [state, dispatch] = useReducer(reducer, 0);
\*           return h("div", {},
\*             h("button", { testid: "up", onClick: increment }, "Up"),
\*             h("button", { testid: "down", onClick: decrement }, "Down"),
\*             h("button", { testid: "noop", onClick: doNothing }, "Ignore me"),
\*             h("p", {}, state)) }
\* An onClick prop holds the action its handler dispatches.
ReducerCounterOutput(s, g) ==
    IF s.exc # "" THEN s
    ELSE Return(s, h("div", NullKey, NoProps,
                     Arr(<<h("button", NullKey, [testid |-> "up", onClick |-> "increment"],
                             Str("Up"), g),
                           h("button", NullKey, [testid |-> "down", onClick |-> "decrement"],
                             Str("Down"), g),
                           h("button", NullKey, [testid |-> "noop", onClick |-> "ignore-me"],
                             Str("Ignore me"), g),
                           h("p", NullKey, NoProps, Num(s.ret[1]), g)>>),
                     g))

ReducerCounter(s, c, props, ch, g) ==
    ReducerCounterOutput(useReducer(s, c, 0), g)

\* Both = () => { const [n, setN] = useState(0);
\*                useLayoutEffect(() => { ++ran; return () => { ++cleaned } }, []);
\*                useEffect(() => { ++ran; return () => { ++cleaned } }, []);
\*                return "w" }
Both(s, c, props, ch, g) ==
    Return(useEffect(useEffect(useState(s, c, 0), c, Fn("tick", 0), FALSE, <<>>,
                               TASK_RUN_LAYOUT_EFFECTS),
                     c, Fn("tick", 0), FALSE, <<>>, TASK_RUN_EFFECTS),
           Str("w"))

\* Bomb = ({id, at}) => {
\*     const [n, setN] = useState(0);
\*     useEffect(at === "effect" ? () => { throw new Error("Effect error " + id) }
\*             : at === "cleanup" ? () => () => { throw new Error("Cleanup error " + id) }
\*             : at === "hook" ? () => { useState(0) }
\*             : () => {}, []);
\*     useEffect(() => { ++ran; return () => { ++cleaned } }, []);
\*     if (at === "render" || n > 0) { throw new Error("Error in " + id) }
\*     return "b" }
\* LayoutBomb is the same function with useLayoutEffect.
FirstEffect(props) ==
    CASE props.at = "effect" -> Fn("boom", props.id)
      [] props.at = "cleanup" -> Fn("fuse", props.id)
      [] props.at = "hook" -> Fn("hooky", 0)
      [] OTHER -> Fn("bare", 0)

BombOutput(s, c, props) ==
    IF s.exc # "" THEN s
    ELSE IF props.at = "render" \/ s.comps[c].hooks[1].value > 0
      THEN Raise(s, "Error in " \o NumToString(props.id))
    ELSE Return(s, Str("b"))

EffectBomb(s, c, props, task) ==
    BombOutput(useEffect(useEffect(useState(s, c, 0), c, FirstEffect(props), FALSE,
                                   <<>>, task),
                         c, Fn("tick", 0), FALSE, <<>>, task),
               c, props)

Bomb(s, c, props, ch, g) == EffectBomb(s, c, props, TASK_RUN_EFFECTS)

LayoutBomb(s, c, props, ch, g) == EffectBomb(s, c, props, TASK_RUN_LAYOUT_EFFECTS)

\* HookSeq = ({order}) => { for (const k of order) {
\*               k === "state" ? useState(0) : useEffect(() => {}, []) }
\*             return "h" }
\* (a component whose hook calls depend on its props, unrolled)
RECURSIVE CallHooks(_, _, _)
CallHooks(s, c, order) ==
    IF s.exc # "" \/ order = <<>> THEN s
    ELSE CallHooks(IF Head(order) = "state" THEN useState(s, c, 0)
                   ELSE useEffect(s, c, Fn("bare", 0), FALSE, <<>>, TASK_RUN_EFFECTS),
                   c, Tail(order))

HookSeq(s, c, props, ch, g) == Return(CallHooks(s, c, props.order), Str("h"))

\* Echo = ({value}) => value
Echo(s, c, props, ch, g) == Return(s, props.value)

\* ErrorBoundary = ({children}) => children
ErrorBoundary(s, c, props, ch, g) == Return(s, ch)

\* contextType.Provider = (props) => {
\*     const provider = useRef(null);
\*     if (!provider.current) {
\*         provider.current = new ContextProvider(contextType, defaultValue);
\*         registerContext(provider.current) }
\*     provider.current.setValue(props.value);
\*     return props.children }
\* s.ret is the index of the ref cell; the ContextProvider object lives in
\* the contextProvider field of the component that created it.
ProviderCreate(s, c, type) ==
    IF s.exc # "" THEN s
    ELSE IF s.comps[c].hooks[s.ret].value = 0
      THEN registerContext([s EXCEPT !.comps[c].hooks[s.ret].value = 1], c,
                           ContextProvider(type, DefaultValue(type)))
    ELSE s

Provider(s, c, type, props, ch, g) ==
    Return(setValue(ProviderCreate(useRef(s, c, 0), c, type), c, props.value), ch)

\* Consumer = ({ctx}) => h("div", {}, useContext(ctx))
ConsumerOutput(s, g) ==
    IF s.exc # "" THEN s
    ELSE Return(s, h("div", NullKey, NoProps, Num(s.ret), g))

Consumer(s, c, props, ch, g) == ConsumerOutput(useContext(s, c, props.ctx), g)

\* Late = ({ctx}) => { const [n, setN] = useState(0);
\*                     return n === 0 ? null : h(Consumer, {ctx}) }
LateOutput(s, props, g) ==
    IF s.exc # "" THEN s
    ELSE IF s.ret[1] = 0 THEN Return(s, Null)
    ELSE Return(s, h("Consumer", NullKey, [ctx |-> props.ctx], Undefined, g))

Late(s, c, props, ch, g) == LateOutput(useState(s, c, 0), props, g)

\* FusedConsumer = () => {
\*     useEffect(() => () => { throw new Error("Cleanup error 1") }, []);
\*     return h("div", {}, useContext(contextA)) }
FusedConsumer(s, c, props, ch, g) ==
    ConsumerOutput(useContext(useEffect(s, c, Fn("fuse", 1), FALSE, <<>>,
                                        TASK_RUN_EFFECTS),
                              c, "A"),
                   g)

\* const consumer = h(Consumer, {ctx: "A"});   (created once)
\* ContextTest = ({value, renderConsumer}) =>
\*     h(contextA.Provider, {value}, renderConsumer && consumer)
consumer == h("Consumer", NullKey, [ctx |-> "A"], Undefined, 0)
ContextTest(s, c, props, ch, g) ==
    Return(s, h("ProviderA", NullKey, [value |-> props.value],
                IF props.renderConsumer THEN consumer ELSE False, g))

\* const childNode = h(Counter, {init: 1});   (created once, outside render)
\* App = () => h("div", {}, childNode)
childNode == h("Counter", NullKey, [init |-> 1], Undefined, 0)
App(s, c, props, ch, g) ==
    Return(s, h("div", NullKey, NoProps, childNode, g))

\* A props object: the bag of the vnode and the identity of the object,
\* which is that of the vnode that holds it.
PropsObject(vnode) == [oid |-> vnode.oid, p |-> vnode.p]

\* props[key], which is undefined for a key that the bag does not hold; the
\* string "undefined" stands for the value undefined.
PropValue(props, key) == IF key \in DOMAIN props THEN props[key] ELSE "undefined"

\* Two bags with the same keys and the same value under every key.
shallowEqualBothWays(a, b) == DOMAIN a = DOMAIN b /\ \A key \in DOMAIN a : a[key] = b[key]

\* shallowEqual of diff-utils
shallowEqual(a, b) ==
    /\ \A key \in DOMAIN a : a[key] = PropValue(b, key)
    /\ \A key \in DOMAIN b : key \in DOMAIN a

\* A memo wrapper that takes every props object for a new one.
KeepPropsNever(s, c, vnode) ==
    IF s.exc # "" THEN s
    ELSE [s EXCEPT !.comps[c].hooks[s.ret].value = PropsObject(vnode)]

\* The wrapper of memo after useRef, whose cell is s.ret:
\*     if (prevProps.current !== props) {
\*         if (!shallowEqual(prevProps.current, props)) { prevProps.current = props } }
KeepProps(s, c, vnode) ==
    IF s.exc # "" THEN s
    ELSE IF /\ s.comps[c].hooks[s.ret].value.oid # vnode.oid
            /\ ~shallowEqual(s.comps[c].hooks[s.ret].value.p, vnode.p)
      THEN [s EXCEPT !.comps[c].hooks[s.ret].value = PropsObject(vnode)]
    ELSE s

\* Hello = function Component({firstName, lastName}) {
\*     ++renderCount; return h("div", {}, lastName) }
\* The history keeps the props of its calls.
Hello(s, c, props, g) ==
    IF s.exc # "" THEN s
    ELSE Return([s EXCEPT !.log.wrapped = Append(@, <<c, props>>),
                          !.comps[c].invokedWith = props],
                h("div", NullKey, NoProps, Str(PropValue(props, "lastName")), g))

\* Tally = function Component() { const [n, setN] = useState(0);
\*                                 ++renderCount; return h("div", {}, n) }
\* A wrapped function that calls a hook of its own.
TallyOutput(s, c, props, g) ==
    IF s.exc # "" THEN s
    ELSE Return([s EXCEPT !.log.wrapped = Append(@, <<c, props>>),
                          !.comps[c].invokedWith = props],
                h("div", NullKey, NoProps, Num(s.ret[1]), g))

Tally(s, c, props, g) == TallyOutput(useState(s, c, 0), c, props, g)

\* component(prevProps.current), `component` the function that memo wrapped:
\* MemoTally = memo(Tally), Memo = memo(Hello).
wrappedComponent(s, c, type, props, g) ==
    IF type = "MemoTally" THEN Tally(s, c, props, g) ELSE Hello(s, c, props, g)

\* useMemo(() => component(prevProps.current), [prevProps.current]) after
\* nextHook: s.ret is the index of the cell, 0 when new; `current` is
\* prevProps.current.
UseMemoCell(s, c, type, current, g) ==
    IF s.exc # "" THEN s
    ELSE IF s.ret = 0
      THEN AddMemo(wrappedComponent(s, c, type, current.p, g), c, <<current.oid>>)
    ELSE IF ~depsEqual(s.comps[c].hooks[s.ret].deps, <<current.oid>>)
      THEN StoreMemo(wrappedComponent(s, c, type, current.p, g), c, s.ret,
                     <<current.oid>>)
    ELSE Return(s, s.comps[c].hooks[s.ret].value)

\* The wrapper of memo from its useMemo call; the cell of prevProps is s.ret.
MemoRender(s, c, type, g) ==
    IF s.exc # "" THEN s
    ELSE UseMemoCell(nextHook(getHookState(s, c), c, "memo"), c, type,
                     s.comps[c].hooks[s.ret].value, g)

\* Memo = memo(Hello):  wrapper = (props) => {
\*     const prevProps = useRef(props);
\*     ...
\*     return useMemo(() => component(prevProps.current), [prevProps.current]) }
MemoWrapper(s, c, vnode, g) ==
    MemoRender(KeepProps(useRef(s, c, PropsObject(vnode)), c, vnode), c,
               vnode.type, g)

\* (vnode.type as Function).call(null, vnode.props)
Call(s, c, vnode, g) ==
    IF s.exc # "" THEN s
    ELSE CASE vnode.type = "Fragment" -> Fragment(s, c, vnode.p, vnode.ch, g)
           [] vnode.type = "Bomb" -> Bomb(s, c, vnode.p, vnode.ch, g)
           [] vnode.type = "LayoutBomb" -> LayoutBomb(s, c, vnode.p, vnode.ch, g)
           [] vnode.type = "HookSeq" -> HookSeq(s, c, vnode.p, vnode.ch, g)
           [] vnode.type = "ErrorBoundary" ->
                ErrorBoundary(s, c, vnode.p, vnode.ch, g)
           [] vnode.type = "ProviderA" -> Provider(s, c, "A", vnode.p, vnode.ch, g)
           [] vnode.type = "ProviderB" -> Provider(s, c, "B", vnode.p, vnode.ch, g)
           [] vnode.type = "Consumer" -> Consumer(s, c, vnode.p, vnode.ch, g)
           [] vnode.type = "Late" -> Late(s, c, vnode.p, vnode.ch, g)
           [] vnode.type = "Both" -> Both(s, c, vnode.p, vnode.ch, g)
           [] vnode.type = "Memo" -> MemoWrapper(s, c, vnode, g)
           [] vnode.type = "MemoTally" -> MemoWrapper(s, c, vnode, g)
           [] vnode.type = "Echo" -> Echo(s, c, vnode.p, vnode.ch, g)
           [] vnode.type = "ReducerCounter" ->
                ReducerCounter(s, c, vnode.p, vnode.ch, g)
           [] vnode.type = "FusedConsumer" ->
                FusedConsumer(s, c, vnode.p, vnode.ch, g)
           [] vnode.type = "ContextTest" ->
                ContextTest(s, c, vnode.p, vnode.ch, g)
           [] vnode.type = "Counter" -> Counter(s, c, vnode.p, vnode.ch, g)
           [] vnode.type = "Fragile" -> Fragile(s, c, vnode.p, vnode.ch, g)
           [] vnode.type = "Toggle" -> Toggle(s, c, vnode.p, vnode.ch, g)
           [] vnode.type = "Parent" -> Parent(s, c, vnode.p, vnode.ch, g)
           [] vnode.type = "SyncChild" -> SyncChild(s, c, vnode.p, vnode.ch, g)
           [] vnode.type = "LayoutSync" -> LayoutSync(s, c, vnode.p, vnode.ch, g)
           [] vnode.type = "SyncParent" -> SyncParent(s, c, vnode.p, vnode.ch, g)
           [] vnode.type = "Widget" -> Widget(s, c, vnode.p, vnode.ch, g)
           [] vnode.type = "LayoutWidget" ->
                LayoutWidget(s, c, vnode.p, vnode.ch, g)
           [] vnode.type = "Pair" -> Pair(s, c, vnode.p, vnode.ch, g)
           [] vnode.type = "App" -> App(s, c, vnode.p, vnode.ch, g)
           [] OTHER -> Return(s, vnode.ch)

-----------------------------------------------------------------------------
(* The reconciler (src/src/render.ts).  An operator that needs the result  *)
(* of a call is split there: the second half takes the state the call      *)
(* returned as its parameter `s`.                                          *)

Container == 1

NoError == [set |-> FALSE, error |-> "", handled |-> FALSE]

\* The state after a catch clause has taken the exception in flight.
Caught(s) == [s EXCEPT !.exc = ""]

isErrorBoundary(v) == isValidElement(v) /\ v.type = "ErrorBoundary"

\* vnode.props.handler(error) of an ErrorBoundary: the handlers of the
\* programs either note the error or throw one of their own.
\*   "ok"    : (err) => { handledError = err }
\*   "throw" : () => { throw new Error("Error from boundary") }
\* The history keeps <<boundary, error, whether the handler returned>>.
CallHandler(s, c, error) ==
    IF s.comps[c].vnode.p.handler = "throw"
      THEN Raise([s EXCEPT !.log.handled = Append(@, <<c, error, FALSE>>)],
                 "Error from boundary")
    ELSE [s EXCEPT !.log.handled = Append(@, <<c, error, TRUE>>)]

RECURSIVE ErrorWalk(_, _, _)

\* A walk that goes on with the error the handler was called with.
AfterHandlerKeepsError(s, c, error) ==
    IF s.exc # "" THEN ErrorWalk(Caught(s), s.comps[c].parent, error)
    ELSE [s EXCEPT !.err = [set |-> TRUE, error |-> error, handled |-> TRUE]]

\* The try/catch around one step of the walk: `s` is the state the handler
\* left, `error` the error it was called with.
AfterHandler(s, c, error) ==
    IF s.exc # "" THEN ErrorWalk(Caught(s), s.comps[c].parent, s.exc)
    ELSE [s EXCEPT !.err = [set |-> TRUE, error |-> error, handled |-> TRUE]]

\* The loop of _invokeErrorHandler: walk up from `c` to the nearest
\* ErrorBoundary.
ErrorWalk(s, c, error) ==
    IF c = NoComp
      THEN [s EXCEPT !.err = [set |-> TRUE, error |-> error, handled |-> FALSE],
                     !.log.unhandled = Append(@, error)]
    ELSE IF isErrorBoundary(s.comps[c].vnode)
      THEN AfterHandler(CallHandler(s, c, error), c, error)
    ELSE ErrorWalk(s, s.comps[c].parent, error)

\* Root._invokeErrorHandler
_invokeErrorHandler(s, context, error) ==
    IF s.exc # "" THEN s
    ELSE IF s.err.set THEN s    \* only the first error is reported
    ELSE ErrorWalk([s EXCEPT !.log.walks = Append(@, <<context, error>>)],
                   context, error)

\* catch (err) { this._invokeErrorHandler(component, err) }
Catch(s, c) ==
    IF s.exc # "" THEN _invokeErrorHandler(Caught(s), c, s.exc) ELSE s

\* _renderCustom up to the call of the user function.
BeginRender(s, c) ==
    [s EXCEPT !.pu = SetDelete(@, c),
              !.cur = c,
              !.gen = @ + 1,
              !.comps[c].nrender = @ + 1,
              !.comps[c].hidx = IF s.comps[c].hasHooks THEN -1 ELSE @,
              !.log.invoked = Append(@, c),
              !.log.slotOk = @ /\ s.cur = NoComp]

\* catch (err) { output = null; this._invokeErrorHandler(component, err) }
CatchRender(s, c) ==
    IF s.exc # "" THEN Return(Catch(s, c), Null) ELSE s

\* A _renderCustom that leaves currentHooks as the render set it.
EndRenderKeepsSlot(s) == s

\* this._rendering = null; setHookState(null)
EndRender(s) == [s EXCEPT !.cur = NoComp]

\* Root._renderCustom: call the user function of `c`; ret is its output.
_renderCustom(s, vnode, c) ==
    IF s.exc # "" THEN s
    ELSE EndRender(CatchRender(Call(BeginRender(s, c), c, vnode, s.gen + 1), c))

RECURSIVE _unmount(_, _, _)
RECURSIVE UnmountEach(_, _, _)
UnmountEach(s, cs, isUnmountingAncestor) ==
    IF s.exc # "" \/ cs = <<>> THEN s
    ELSE UnmountEach(_unmount(s, Head(cs), isUnmountingAncestor), Tail(cs),
                     isUnmountingAncestor)

\* History only: the effects of `c` that are pending when it is unmounted.
MarkCancelled(hooks) ==
    [i \in 1..Len(hooks) |->
        IF hooks[i].pendingEffect # NoFn
          THEN [hooks[i] EXCEPT !.cancelled = TRUE] ELSE hooks[i]]

\* this._pendingUpdate.delete(component); ...LayoutEffects...; ...Effects...
DropFromQueues(s, c) ==
    IF s.exc # "" THEN s
    ELSE [s EXCEPT !.pu = SetDelete(@, c),
                   !.ple = SetDelete(@, c),
                   !.pe = SetDelete(@, c),
                   !.comps[c].hooks = MarkCancelled(@)]

\* Whether a prop bag holds a ref: vnode.props.ref
HasRef(props) == "ref" \in DOMAIN props

\* An _unmount that clears the ref whatever it points at.
ClearRefAlways(s, c) ==
    IF s.exc # "" THEN s
    ELSE IF HasRef(s.comps[c].vnode.p)
      THEN [s EXCEPT !.refs[s.comps[c].vnode.p.ref] = NoNode]
    ELSE s

\* const ref = component.vnode.props.ref;
\* if (ref && ref.current === component.dom) { ref.current = null }
ClearRef(s, c) ==
    IF s.exc # "" THEN s
    ELSE IF /\ HasRef(s.comps[c].vnode.p)
            /\ s.refs[s.comps[c].vnode.p.ref] = s.comps[c].dom
      THEN [s EXCEPT !.refs[s.comps[c].vnode.p.ref] = NoNode]
    ELSE s

\* The cleanup of _unmount that only applies to custom components.
UnmountCustom(s, c) ==
    IF s.exc # "" THEN s
    ELSE IF isHostType(s.comps[c].vnode.type) THEN s
    ELSE Catch(cleanup(DropFromQueues(s, c), c), c)

\* if (!isUnmountingAncestor) { forEachDomRoot(component, node => node.remove()) }
RemoveDomRoots(s, c, isUnmountingAncestor) ==
    IF s.exc # "" THEN s
    ELSE IF ~isUnmountingAncestor THEN RemoveNodes(s, forEachDomRoot(s, c))
    ELSE s

\* The body of _unmount for a component that is not emptyComponent.
UnmountBody(s, c, isUnmountingAncestor) ==
    IF s.exc # "" THEN s
    ELSE RemoveDomRoots(IF isValidElement(s.comps[c].vnode)
                          THEN UnmountCustom(ClearRef(UnmountEach(s, s.comps[c].output,
                                                                  TRUE),
                                                      c),
                                             c)
                        ELSE s,
                        c, isUnmountingAncestor)

\* Root._unmount; the history keeps the component of every call and the DOM
\* roots it had.
_unmount(s, c, isUnmountingAncestor) ==
    IF s.exc # "" \/ c = EmptyComp THEN s
    ELSE UnmountBody([s EXCEPT !.log.unmounts = Append(@, <<c, forEachDomRoot(s, c)>>)],
                     c, isUnmountingAncestor)

RECURSIVE _renderTree(_, _, _)
RECURSIVE RenderHostChildren(_, _, _, _)
RECURSIVE RenderCustomChildren(_, _, _)
RECURSIVE AppendAll(_, _, _)

AppendAll(s, el, ns) ==
    IF s.exc # "" \/ ns = <<>> THEN s
    ELSE AppendAll(DomAppend(s, el, Head(ns)), el, Tail(ns))

\* newComponent.output.push(childComponent);
\* forEachDomRoot(childComponent, node => element.append(node))
AppendChild(s, id, el) ==
    IF s.exc # "" THEN s
    ELSE AppendAll([s EXCEPT !.comps[id].output = Append(@, s.ret)], el,
                   forEachDomRoot(s, s.ret))

\* The loop over the children of a new DOM component.
RenderHostChildren(s, id, el, children) ==
    IF s.exc # "" \/ children = <<>> THEN s
    ELSE RenderHostChildren(AppendChild(_renderTree(s, id, Head(children)), id, el),
                            id, el, Tail(children))

\* newComponent.output.push(childComponent);
\* forEachDomRoot(childComponent, node => domRoots.push(node))
\* The local array `domRoots` is kept in the component's field, which stays
\* null (domRootsNull) until _renderTree assigns it.
PushChild(s, id) ==
    IF s.exc # "" THEN s
    ELSE [s EXCEPT !.comps[id].output = Append(@, s.ret),
                   !.comps[id].domRoots = @ \o forEachDomRoot(s, s.ret)]

\* The loop over the output of a new custom component.
RenderCustomChildren(s, id, children) ==
    IF s.exc # "" \/ children = <<>> THEN s
    ELSE RenderCustomChildren(PushChild(_renderTree(s, id, Head(children)), id),
                              id, Tail(children))

\* newComponent.dom = node
SetDom(s, id, node) ==
    IF s.exc # "" THEN s ELSE [s EXCEPT !.comps[id].dom = node]

\* for (let child of flattenChildren(output)) ...  (s.ret is the output)
RenderOutput(s, id) ==
    IF s.exc # "" THEN s
    ELSE RenderCustomChildren(s, id, flattenChildren(s.ret))

\* newComponent.domRoots = domRoots
SetDomRoots(s, id) ==
    IF s.exc # "" THEN s ELSE [s EXCEPT !.comps[id].domRootsNull = FALSE]

\* if (vnode.props.ref) { vnode.props.ref.current = element }
SetRef(s, props, element) ==
    IF s.exc # "" THEN s
    ELSE IF HasRef(props) THEN [s EXCEPT !.refs[props.ref] = element]
    ELSE s

\* Root._renderTree after the allocation of newComponent as component `id`.
RenderNew(s, id, vnode) ==
    CASE isTextVNode(vnode) ->
           SetDom(CreateNode(s, "#text", toString(vnode)), id, Len(s.dom) + 1)
      [] ~isTextVNode(vnode) /\ ~isValidElement(vnode) ->
           Throw(s, "Object is not a valid element")
      [] isValidElement(vnode) /\ isHostType(vnode.type) ->
           RenderHostChildren(
              SetDom(SetRef(diffElementProps(CreateNode(s, vnode.type, ""),
                                             Len(s.dom) + 1, NoProps, vnode.p),
                            vnode.p, Len(s.dom) + 1),
                     id, Len(s.dom) + 1),
              id, Len(s.dom) + 1,
              IF IsNullish(vnode.ch) THEN <<>> ELSE flattenChildren(vnode.ch))
      [] OTHER ->
           SetDomRoots(RenderOutput(_renderCustom(s, vnode, id), id), id)

\* Root._renderTree: ret is the new component.
_renderTree(s, parent, vnode) ==
    IF s.exc # "" THEN s
    ELSE IF isEmptyVNode(vnode) THEN Return(s, EmptyComp)
    ELSE Return(RenderNew([s EXCEPT !.comps = Append(@,
                              NewComponent(parent,
                                  IF parent # NoComp THEN s.comps[parent].depth + 1
                                  ELSE 0,
                                  vnode))],
                          Len(s.comps) + 1, vnode),
                Len(s.comps) + 1)

\* forEachDomRoot(c, node => { insertNodeAfter(node, parent, insertAfter);
\*                             insertAfter = node })
RECURSIVE InsertChain(_, _, _, _)
InsertChain(s, ns, parent, insertAfter) ==
    IF s.exc # "" \/ ns = <<>> THEN s
    ELSE InsertChain(insertNodeAfter(s, Head(ns), parent, insertAfter),
                     Tail(ns), parent, Head(ns))

Last(seq, dflt) == IF seq = <<>> THEN dflt ELSE seq[Len(seq)]

\* prevOutput.findIndex(o => vnodeKey(o.vnode) === childKey), 1-based, 0 for -1.
findIndex(s, prevOutput, childKey) ==
    IF \E i \in 1..Len(prevOutput) : vnodeKey(VNodeOf(s, prevOutput[i])) = childKey
      THEN CHOOSE i \in 1..Len(prevOutput) :
             /\ vnodeKey(VNodeOf(s, prevOutput[i])) = childKey
             /\ \A j \in 1..(i - 1) : vnodeKey(VNodeOf(s, prevOutput[j])) # childKey
    ELSE 0

splice(seq, i) == SubSeq(seq, 1, i - 1) \o SubSeq(seq, i + 1, Len(seq))

RECURSIVE _diff(_, _, _, _, _, _)
RECURSIVE _diffOutput(_, _, _, _, _)
RECURSIVE DiffChildren(_, _, _, _, _, _, _)

\* One child of _diffOutput: diff it against the previous component with the
\* same key, spliced out of prevOutput (the component's own output array),
\* or render it from scratch.  ret is childComponent.
\* History only: the last list of the history that diffs the output of
\* `component`, which is the one whose loop is running.
ListOf(lists, component) ==
    CHOOSE n \in 1..Len(lists) :
        /\ lists[n][1] = component
        /\ \A m \in (n + 1)..Len(lists) : lists[m][1] # component

\* The history keeps, for every child, the list it belongs to, its key and
\* prevComponent (NoComp for null).
DiffChild(s, component, child, parentElement, insertAfter) ==
    LET prevOutput == s.comps[component].output
        prevComponentIndex == findIndex(s, prevOutput, vnodeKey(child))
    IN IF prevComponentIndex # 0
         THEN _diff([s EXCEPT !.comps[component].output =
                                splice(@, prevComponentIndex),
                              !.log.matched =
                                Append(@, <<ListOf(s.log.lists, component), vnodeKey(child),
                                            prevOutput[prevComponentIndex]>>)],
                    component, prevOutput[prevComponentIndex], child,
                    parentElement, insertAfter)
       ELSE _renderTree([s EXCEPT !.log.matched =
                                    Append(@, <<ListOf(s.log.lists, component), vnodeKey(child),
                                                NoComp>>)],
                        component, child)

\* The rest of the loop body, s.ret being childComponent: put its DOM roots in
\* place and go on with the next child.
PlaceChild(s, component, rest, parentElement, insertAfter, newOutput, domRoots) ==
    IF s.exc # "" THEN s
    ELSE DiffChildren(InsertChain(s, forEachDomRoot(s, s.ret), parentElement,
                                  insertAfter),
                      component, rest, parentElement,
                      Last(forEachDomRoot(s, s.ret), insertAfter),
                      Append(newOutput, s.ret),
                      domRoots \o forEachDomRoot(s, s.ret))

\* The loop of _diffOutput over the new children; newOutput and domRoots are
\* the locals of _diffOutput.  ret is <<newOutput, domRoots>>.
DiffChildren(s, component, children, parentElement, insertAfter, newOutput, domRoots) ==
    IF s.exc # "" THEN s
    ELSE IF children = <<>> THEN Return(s, <<newOutput, domRoots>>)
    ELSE PlaceChild(DiffChild(s, component, Head(children), parentElement,
                              insertAfter),
                    component, Tail(children), parentElement, insertAfter,
                    newOutput, domRoots)

\* component.output = newOutput; component.domRoots = domRoots
StoreOutput(s, component, newOutput, domRoots) ==
    IF s.exc # "" THEN s
    ELSE [s EXCEPT !.comps[component].output = newOutput,
                   !.comps[component].domRoots = domRoots]

\* for (let unmatched of prevOutput) { this._unmount(unmatched) } and the two
\* assignments; s.ret is <<newOutput, domRoots>>.
FinishOutput(s, component, domRootsNull) ==
    IF s.exc # "" THEN s
    ELSE StoreOutput(UnmountEach(s, s.comps[component].output, FALSE), component,
                     s.ret[1], IF domRootsNull THEN <<>> ELSE s.ret[2])

\* The children that the loop of _diffOutput iterates:
\*     if (vnodes) { for (let child of flattenChildren(vnodes)) ... }
ChildrenOf(vnodes) == IF Truthy(vnodes) THEN flattenChildren(vnodes) ELSE <<>>

\* History only: the component whose output _diffOutput diffs, prevOutput
\* with the key of every component in it, the keys of the children that
\* the loop iterates, and the value of `vnodes`.
NoteList(s, component, vnodes) ==
    IF s.exc # "" THEN s
    ELSE [s EXCEPT !.log.lists =
            Append(@, <<component,
                        [i \in 1..Len(s.comps[component].output) |->
                            <<s.comps[component].output[i],
                              vnodeKey(VNodeOf(s, s.comps[component].output[i]))>>],
                        [i \in 1..Len(ChildrenOf(vnodes)) |->
                            vnodeKey(ChildrenOf(vnodes)[i])],
                        vnodes>>)]

\* Root._diffOutput
_diffOutput(s, component, vnodes, parentElement, insertAfter) ==
    IF s.exc # "" THEN s
    ELSE FinishOutput(
           DiffChildren(NoteList(s, component, vnodes), component,
                        ChildrenOf(vnodes),
                        parentElement, insertAfter, <<>>, <<>>),
           component, s.comps[component].domRootsNull)

\* The tail of _diff: render `vnode` from scratch and insert its DOM roots.
InsertNew(s, parent, insertAfter) ==
    IF s.exc # "" THEN s
    ELSE Return(InsertChain(s, forEachDomRoot(s, s.ret), parent, insertAfter), s.ret)

\* The conditions under which _diff sets typeMatched.
typeMatched(prevVnode, vnode) ==
    \/ isTextVNode(prevVnode) /\ isTextVNode(vnode)
    \/ isEmptyVNode(prevVnode) /\ isEmptyVNode(vnode)
    \/ isValidElement(prevVnode) /\ isValidElement(vnode)
       /\ prevVnode.type = vnode.type

\* this._diffOutput(component, output, parent, insertAfter), s.ret being the
\* output of _renderCustom.
DiffCustomOutput(s, component, parent, insertAfter) ==
    IF s.exc # "" THEN s
    ELSE _diffOutput(s, component, s.ret, parent, insertAfter)

\* The arm of _diff that updates a component whose type matches.
UpdateMatched(s, component, prevVnode, vnode, parent, insertAfter) ==
    CASE isTextVNode(vnode) ->
           IF ~StrictEq(vnode, prevVnode)
             THEN [s EXCEPT !.dom[s.comps[component].dom].data = toString(vnode)]
           ELSE s
      [] isEmptyVNode(vnode) -> s
      [] isValidElement(vnode) /\ isHostType(vnode.type) ->
           _diffOutput(diffElementProps(s, s.comps[component].dom, prevVnode.p,
                                        vnode.p),
                       component,
                       IF IsNullish(vnode.ch) THEN Null ELSE vnode.ch,
                       s.comps[component].dom, NoNode)
      [] OTHER ->
           DiffCustomOutput(_renderCustom(s, vnode, component), component, parent,
                            insertAfter)

\* if (typeMatched) { if (!isEmptyVNode(vnode)) { component.vnode = vnode }
\*                    return component }
KeepComponent(s, component, vnode) ==
    IF s.exc # "" THEN s
    ELSE Return(IF ~isEmptyVNode(vnode)
                  THEN [s EXCEPT !.comps[component].vnode = vnode]
                ELSE s,
                component)

\* A diff without the bail-out.
BailOutNever(s, component, vnode) == FALSE

\* if (prevVnode === vnode && !this._pendingUpdate.has(component))
BailOut(s, component, vnode) ==
    /\ component # NoComp
    /\ StrictEq(VNodeOf(s, component), vnode)
    /\ ~SetHas(s.pu, component)

\* Root._diff: ret is the component that now stands for `vnode`.
_diff(s, parentComponent, component, vnode, parent, insertAfter) ==
    IF s.exc # "" THEN s
    ELSE IF BailOut(s, component, vnode)
      THEN Return([s EXCEPT !.log.bailed = Append(@, component)], component)
    ELSE IF component # NoComp /\ typeMatched(VNodeOf(s, component), vnode)
      THEN KeepComponent(UpdateMatched(s, component, VNodeOf(s, component), vnode,
                                       parent, insertAfter),
                         component, vnode)
    ELSE InsertNew(_renderTree(IF component # NoComp
                                 THEN _unmount(s, component, FALSE) ELSE s,
                               parentComponent, vnode),
                   parent, insertAfter)

RECURSIVE render(_, _)
RECURSIVE _handlePendingError(_)

_taskQueue(s, task) ==
    CASE task = TASK_UPDATE -> s.pu
      [] task = TASK_RUN_LAYOUT_EFFECTS -> s.ple
      [] OTHER -> s.pe

\* for (let component of queue) { try { component.hooks.run(task) } catch ... }
RECURSIVE FlushEach(_, _, _)
FlushEach(s, q, task) ==
    IF s.exc # "" \/ q = <<>> THEN s
    ELSE FlushEach(Catch(run(s, Head(q), task), Head(q)), Tail(q), task)

\* queue.clear()
ClearQueue(s, task) ==
    IF s.exc # "" THEN s
    ELSE CASE task = TASK_UPDATE -> [s EXCEPT !.pu = <<>>]
           [] task = TASK_RUN_LAYOUT_EFFECTS -> [s EXCEPT !.ple = <<>>]
           [] OTHER -> [s EXCEPT !.pe = <<>>]

\* Root._flushEffects
_flushEffects(s, task) ==
    IF s.exc # "" THEN s
    ELSE _handlePendingError(ClearQueue(FlushEach(s, _taskQueue(s, task), task),
                                        task))

\* Root._handlePendingError
_handlePendingError(s) ==
    IF s.exc # "" THEN s
    ELSE IF ~s.err.set THEN s
    ELSE IF ~s.err.handled
      THEN Throw(render([s EXCEPT !.err = NoError], Null), s.err.error)
    ELSE [s EXCEPT !.err = NoError]

\* this._rootComponent = this._diff(...)
SetRoot(s) == IF s.exc # "" THEN s ELSE [s EXCEPT !.root = s.ret]

\* Root.render
render(s, vnode) ==
    IF s.exc # "" THEN s
    ELSE _handlePendingError(
           _flushEffects(SetRoot(_diff(s, NoComp, s.root, vnode, Container, NoNode)),
                         TASK_RUN_LAYOUT_EFFECTS))

\* The queue flushed in insertion order, without the sort by depth.
KeepQueueOrder(s, q, sorted) == q

\* pending.sort((a, b) => a.depth - b.depth): a stable sort by depth.
RECURSIVE InsertByDepth(_, _, _)
InsertByDepth(s, sorted, c) ==
    IF sorted = <<>> THEN <<c>>
    ELSE IF s.comps[Head(sorted)].depth <= s.comps[c].depth
      THEN <<Head(sorted)>> \o InsertByDepth(s, Tail(sorted), c)
    ELSE <<c>> \o sorted

RECURSIVE SortByDepth(_, _, _)
SortByDepth(s, q, sorted) ==
    IF q = <<>> THEN sorted
    ELSE SortByDepth(s, Tail(q), InsertByDepth(s, sorted, Head(q)))

\* for (let i = ancestorIndex - 1; i >= 0 && !insertAfter; i--): the last DOM
\* node of the nearest preceding sibling that has one (i is 1-based here).
RECURSIVE FindSibling(_, _, _)
FindSibling(s, out, i) ==
    IF i < 1 THEN NoNode
    ELSE IF Dom(s, out[i]) # NoNode THEN Dom(s, out[i])
    ELSE IF ~DomRootsNull(s, out[i]) /\ Len(DomRoots(s, out[i])) > 0
      THEN DomRoots(s, out[i])[Len(DomRoots(s, out[i]))]
    ELSE FindSibling(s, out, i - 1)

\* The ancestor walk of _flushUpdates: <<insertAfter, parent>> when it ends.
RECURSIVE InsertionPoint(_, _, _)
InsertionPoint(s, ancestor, parent) ==
    IF parent = NoComp THEN <<NoNode, NoComp>>
    ELSE LET insertAfter == FindSibling(s, s.comps[parent].output,
                                IndexOf(s.comps[parent].output, ancestor) - 1)
         IN IF insertAfter # NoNode \/ s.comps[parent].dom # NoNode
              THEN <<insertAfter, parent>>
            ELSE InsertionPoint(s, parent, s.comps[parent].parent)

\* let parentDom: the parent of insertAfter, else the DOM node of the
\* ancestor found, else the container.  w is <<insertAfter, parent>>.
ParentDom(s, w) ==
    IF w[1] # NoNode THEN s.dom[w[1]].parent
    ELSE IF w[2] # NoComp /\ s.comps[w[2]].dom # NoNode THEN s.comps[w[2]].dom
    ELSE Container

\* while (parent && !parent.dom) { updateDomRoots(parent); parent = parent.parent }
RECURSIVE UpdateAncestors(_, _)
UpdateAncestors(s, parent) ==
    IF s.exc # "" \/ parent = NoComp THEN s
    ELSE IF s.comps[parent].dom # NoNode THEN s
    ELSE UpdateAncestors(updateDomRoots(s, parent), s.comps[parent].parent)

\* if (!arraysEqual(prevDomRoots, component.domRoots)) { ... }
AfterRediff(s, component, prevDomRootsNull, prevDomRoots) ==
    IF s.exc # "" THEN s
    ELSE IF prevDomRootsNull \/ s.comps[component].domRootsNull
      THEN Throw(s, "TypeError")     \* arraysEqual reads null.length
    ELSE IF ~arraysEqual(prevDomRoots, s.comps[component].domRoots)
      THEN UpdateAncestors(s, s.comps[component].parent)
    ELSE s

\* The body of the loop over `pending` for one component.
FlushOne(s, component, w) ==
    AfterRediff(_diff([s EXCEPT !.log.flushed = Append(@, component)],
                      s.comps[component].parent, component,
                      s.comps[component].vnode, ParentDom(s, w), w[1]),
                component, s.comps[component].domRootsNull,
                s.comps[component].domRoots)

RECURSIVE FlushPending(_, _)
FlushPending(s, pending) ==
    IF s.exc # "" \/ pending = <<>> THEN s
    ELSE FlushPending(IF ~SetHas(s.pu, Head(pending))
                        THEN s       \* already re-rendered by an ancestor
                      ELSE FlushOne(s, Head(pending),
                                    InsertionPoint(s, Head(pending),
                                                   s.comps[Head(pending)].parent)),
                      Tail(pending))

RECURSIVE FlushLoop(_)
FlushLoop(s) ==
    IF s.exc # "" \/ s.pu = <<>> THEN s
    ELSE FlushLoop(_flushEffects(FlushPending(s, SortByDepth(s, s.pu, <<>>)),
                                 TASK_RUN_LAYOUT_EFFECTS))

\* Root._flushUpdates.  inFlush is history: it marks the updates scheduled
\* while the queue is being flushed.
EndFlush(s) == [s EXCEPT !.inFlush = FALSE]
_flushUpdates(s) ==
    EndFlush(_handlePendingError(FlushLoop([s EXCEPT !.inFlush = TRUE])))

\* The fields of a Root object.
RootFields(s) ==
    [root |-> s.root, pu |-> s.pu, ple |-> s.ple, pe |-> s.pe, err |-> s.err]

\* The call of a method of Root r, and the return from it: `this` changes
\* between the Root constructed last and Root r.  The fields of the Root
\* that is not `this` are kept in `retired`.
SwitchRoot(s, r) ==
    IF r = s.roots THEN s
    ELSE [s EXCEPT !.self = IF s.self = r THEN s.roots ELSE r,
                   !.root = s.retired[r].root, !.pu = s.retired[r].pu,
                   !.ple = s.retired[r].ple, !.pe = s.retired[r].pe,
                   !.err = s.retired[r].err, !.retired[r] = RootFields(s)]

\* new Root(container): the fields of the constructor, and
\* activeRoots.set(container, this).  The Root that the container held
\* before lives on in the callbacks it armed and in the hook state of its
\* components.
NewRoot(s) ==
    [s EXCEPT !.retired = IF s.roots = 0 THEN @ ELSE Append(@, RootFields(s)),
              !.root = NoComp, !.pu = <<>>, !.ple = <<>>, !.pe = <<>>,
              !.err = NoError, !.active = TRUE, !.roots = @ + 1,
              !.self = s.roots + 1, !.base = Len(s.comps)]

\* render(vnode, container) of the module:
\*     const root = activeRoots.get(container) ?? new Root(container);
\*     root.render(vnode)
renderInto(s, vnode) == render(IF s.active THEN s ELSE NewRoot(s), vnode)

\* activeRoots.delete(this.container)
DeleteRoot(s) == IF s.exc # "" THEN s ELSE [s EXCEPT !.active = FALSE]

\* A Root.unmount that leaves the Root in activeRoots.
unmountKeepsRoot(s) == render(s, Null)

\* Root.unmount
unmount(s) == DeleteRoot(render(s, Null))

\* unmountComponentAtNode(container); the history keeps what it returned.
unmountComponentAtNode(s) ==
    IF ~s.active THEN [s EXCEPT !.log.result = FALSE]
    ELSE [unmount(s) EXCEPT !.log.result = TRUE]

\* Root.flush
RECURSIVE flush(_)
flush(s) ==
    IF s.exc # "" THEN s
    ELSE IF s.pu = <<>> /\ s.ple = <<>> /\ s.pe = <<>> THEN s
    ELSE flush(_flushEffects(_flushEffects(_flushUpdates(s),
                                           TASK_RUN_LAYOUT_EFFECTS),
                             TASK_RUN_EFFECTS))

\* flushRoot(container)
flushRoot(s) == IF s.active THEN flush(s) ELSE s

\* dirtyRoots.roots, the Roots that flushAllRoots visits: every Root, so that
\* the queues of each are empty when the outermost act call exits.
dirtyRoots(s) == 1..s.roots

\* for (let root of dirtyRoots.roots) { root.flush() }, from Root r on; a
\* flush that throws ends the loop.
RECURSIVE FlushRootsFrom(_, _)
FlushRootsFrom(s, r) ==
    IF r \notin dirtyRoots(s) THEN s
    ELSE FlushRootsFrom(SwitchRoot(flush(SwitchRoot(s, r)), r), r + 1)

\* A flushAllRoots that flushes at every depth.
flushAllRootsAtAnyDepth(s, depth) == FlushRootsFrom([s EXCEPT !.enabled = FALSE], 1)

\* flushAllRoots of act, depth the value of actDepth when it is called.
flushAllRoots(s, depth) ==
    IF depth > 0 THEN s ELSE FlushRootsFrom([s EXCEPT !.enabled = FALSE], 1)

-----------------------------------------------------------------------------
(* The callers: what the tests do with a container.                        *)

li(key, content) == h("li", key, NoProps, content, 0)
ul(items) == h("ul", NullKey, NoProps, Arr(items), 0)
Items(j, keys) == [i \in 1..Len(keys) |-> li(keys[i], Num(10 * j + keys[i]))]
Custom(type, props) == h(type, NullKey, props, Undefined, 0)
Host(type, ch) == h(type, NullKey, NoProps, ch, 0)
WidgetProps(deps, tag) == [deps |-> deps, tag |-> tag]

\* Keyed lists: every order of three keyed items, and a shorter list whose
\* items hold the falsy texts 0 and "".
ListTops ==
    <<ul(Items(1, <<1, 2, 3>>)), ul(Items(2, <<2, 1, 3>>)),
      ul(Items(3, <<3, 1, 2>>)), ul(Items(4, <<1, 3, 2>>)),
      ul(Items(5, <<2, 3, 1>>)), ul(Items(6, <<3, 2, 1>>)),
      ul(<<li(2, Num(0)), li(1, Str(""))>>)>>

\* A counter on its own, and a parent that passes the same child vnode object
\* on every render.
CounterTops ==
    <<Custom("Counter", [init |-> 0]), Custom("App", NoProps), Null>>

\* Components whose number of DOM nodes changes with their state, between
\* siblings, below a fragment and directly in the container.
ToggleTops ==
    <<Host("div", Arr(<<Host("span", Undefined),
                        h("Fragment", NullKey, NoProps,
                          Custom("Toggle", [init |-> 1]), 0),
                        Host("b", Undefined)>>)),
      h("Fragment", NullKey, NoProps,
        Arr(<<Custom("Toggle", [init |-> 0]), Custom("Toggle", [init |-> 1])>>), 0),
      Custom("Parent", [init |-> 0]),
      Null>>

\* Components that update state while the update queue is being flushed.
SyncTops ==
    <<Custom("SyncParent", [init |-> 1, child |-> "SyncChild"]),
      Custom("SyncParent", [init |-> 1, child |-> "LayoutSync"]),
      Null>>

\* Components with effects.
WidgetTops ==
    <<Custom("Widget", WidgetProps("empty", 0)),
      Custom("Widget", WidgetProps("tag", 1)),
      Custom("Widget", WidgetProps("tag", 2)),
      Custom("Widget", WidgetProps("none", 0)),
      Custom("LayoutWidget", WidgetProps("tag", 1)),
      Custom("LayoutWidget", WidgetProps("tag", 2)),
      Custom("Pair", NoProps),
      Null>>

\* Components that throw, with and without error boundaries around them.
Boundary(handler, child) ==
    h("ErrorBoundary", NullKey, [handler |-> handler], child, 0)
BombProps(id, at) == [id |-> id, at |-> at]

\* Errors thrown by component functions: at once, or once their state is set.
ErrRenderTops ==
    <<Host("ul", Arr(<<Custom("Bomb", BombProps(1, "render")),
                       Custom("Bomb", BombProps(2, "render"))>>)),
      Boundary("ok", Boundary("ok", Custom("Bomb", BombProps(1, "render")))),
      Boundary("ok", Boundary("throw", Custom("Bomb", BombProps(1, "render")))),
      Boundary("throw", Custom("Bomb", BombProps(1, "render"))),
      Boundary("ok", Custom("Bomb", BombProps(1, "none"))),
      Null>>

\* Errors thrown by effect bodies.
ErrEffectTops ==
    <<Host("div", Arr(<<Custom("Bomb", BombProps(1, "effect")),
                        Custom("Bomb", BombProps(2, "none"))>>)),
      Boundary("ok", Host("div", Arr(<<Custom("Bomb", BombProps(1, "effect")),
                                       Custom("Bomb", BombProps(2, "effect"))>>))),
      Host("div", Arr(<<Custom("LayoutBomb", BombProps(1, "effect")),
                        Custom("LayoutBomb", BombProps(2, "none"))>>)),
      Boundary("ok", Custom("LayoutBomb", BombProps(1, "effect"))),
      Null>>

\* Errors thrown by effect cleanups.
ErrCleanupTops ==
    <<Host("div", Arr(<<Custom("Bomb", BombProps(1, "cleanup")),
                        Custom("Bomb", BombProps(2, "cleanup"))>>)),
      Boundary("ok", Custom("Bomb", BombProps(1, "cleanup"))),
      Custom("LayoutBomb", BombProps(1, "cleanup")),
      Null>>

\* Components whose hook calls depend on their props, and a hook called by
\* an effect body.
HookTops ==
    <<Custom("HookSeq", [order |-> <<"state", "effect">>]),
      Custom("HookSeq", [order |-> <<"effect", "state">>]),
      Custom("HookSeq", [order |-> <<"state", "state", "effect">>]),
      Custom("Bomb", BombProps(1, "hook")),
      Null>>

\* Providers of two context types, nested, with consumers below them: some
\* mounted with the providers, one mounted by a later update of its parent.
ProviderA(value, child) == h("ProviderA", NullKey, [value |-> value], child, 0)
ProviderB(value, child) == h("ProviderB", NullKey, [value |-> value], child, 0)
Consumers ==
    Host("div", Arr(<<Custom("Consumer", [ctx |-> "A"]),
                      Custom("Consumer", [ctx |-> "B"])>>))
ContextTops ==
    <<ProviderA(1, ProviderB(5, ProviderA(2, Consumers))),
      ProviderA(3, ProviderB(6, ProviderA(2, Consumers))),
      ProviderB(5, Custom("Consumer", [ctx |-> "A"])),
      ProviderA(1, ProviderB(5, Custom("Late", [ctx |-> "A"]))),
      ProviderA(1, Undefined),
      Null>>

\* A Provider whose consumer is the same vnode object on every render, so
\* that only its subscription re-renders it.
SubscribeTops ==
    <<Custom("ContextTest", [value |-> 1, renderConsumer |-> TRUE]),
      Custom("ContextTest", [value |-> 2, renderConsumer |-> TRUE]),
      Custom("ContextTest", [value |-> 2, renderConsumer |-> FALSE]),
      Null>>

\* A consumer whose effect cleanup throws, under a boundary that handles
\* the error.
FuseTops ==
    <<Boundary("ok", ProviderA(1, Custom("FusedConsumer", NoProps))),
      Boundary("ok", ProviderA(1, False)),
      Boundary("ok", ProviderA(2, False)),
      Null>>

\* A widget with a layout effect and a post-commit effect, as in
\* act(() => render(h(Widget), container)).
ActTops ==
    <<Custom("Both", NoProps), Custom("Widget", WidgetProps("tag", 1)), Null>>

\* Host elements with refs: const ref1 = createRef(), ref2 = createRef().
\* An element replaced by one of another type and by one with another key,
\* both with its ref, and an element rendered again with another ref.
RefItem(key, ref) == h("li", key, [ref |-> ref], Undefined, 0)
RefTops ==
    <<h("div", NullKey, [ref |-> 1], Undefined, 0),
      h("span", NullKey, [ref |-> 1], Undefined, 0),
      ul(<<RefItem(1, 1), RefItem(2, 2)>>),
      ul(<<RefItem(3, 1), RefItem(2, 2)>>),
      h("div", NullKey, [ref |-> 2], Undefined, 0),
      Null>>

\* A component with a reducer.
ReducerTops == <<Custom("ReducerCounter", NoProps), Null>>

\* A memo component rendered with the same props, with an added and a
\* removed prop, one of them with the value undefined, and a changed prop.
MemoTops ==
    <<Custom("Memo", [firstName |-> "Jim", lastName |-> "Smith"]),
      Custom("Memo", [firstName |-> "Jim", lastName |-> "Smith",
                      extra |-> "undefined"]),
      Custom("Memo", [firstName |-> "Jim", lastName |-> "Smith",
                      extra |-> "ignoreme"]),
      Custom("Memo", [firstName |-> "Jim", lastName |-> "Jones"]),
      Null>>

\* A memo component whose wrapped function calls useState, rendered with
\* the same props, with other props, and below a boundary.
MemoHookTops ==
    <<Custom("MemoTally", [label |-> "a"]),
      Custom("MemoTally", [label |-> "b"]),
      Boundary("ok", Custom("MemoTally", [label |-> "a"])),
      Null>>

\* An object that createElement did not make, as a child: { foo: "bar" }
Obj == [k |-> "obj"]

\* Programming errors below an error boundary: hook calls whose order
\* changes between renders, and a child that is no vnode, alone and after a
\* component with an effect.
ProgTops ==
    <<Boundary("ok", Custom("HookSeq", [order |-> <<"state", "effect">>])),
      Boundary("ok", Custom("HookSeq", [order |-> <<"effect", "state">>])),
      Boundary("ok", Host("div", Obj)),
      Host("div", Obj),
      Host("div", Arr(<<Custom("HookSeq", [order |-> <<"state", "effect">>]), Obj>>)),
      Null>>

\* A component without state that returns a number, 0, the empty string,
\* and a string below a host element.
PlainTops ==
    <<Custom("Echo", [value |-> Num(5)]),
      Custom("Echo", [value |-> Num(0)]),
      Custom("Echo", [value |-> Str("")]),
      Host("div", Custom("Echo", [value |-> Str("a")])),
      Null>>

\* A component whose re-render returns an invalid element, next to a
\* counter, and the pair below a boundary; a component that throws followed
\* by an invalid element, with and without a boundary, and a component that
\* throws below a boundary on its own.
FragileTops ==
    <<Host("div", Arr(<<Custom("Fragile", [init |-> 0]),
                        Custom("Counter", [init |-> 0])>>)),
      Boundary("ok", Host("div", Arr(<<Custom("Fragile", [init |-> 0]),
                                       Custom("Counter", [init |-> 0])>>))),
      Host("div", Arr(<<Custom("Bomb", BombProps(1, "render")), Obj>>)),
      Boundary("ok", Host("div", Arr(<<Custom("Bomb", BombProps(1, "render")),
                                       Obj>>))),
      Boundary("ok", Custom("Bomb", BombProps(2, "render"))),
      Null>>

\* Lists with unkeyed items: an unkeyed item inserted before another one,
\* one unkeyed item left of two, and an unkeyed item of another type.
UnkeyedTops ==
    <<ul(<<li(1, Num(1)), li(2, Num(2)), li(NullKey, Num(9))>>),
      ul(<<li(1, Num(1)), li(NullKey, Num(8)), li(2, Num(2)), li(NullKey, Num(9))>>),
      ul(<<li(NullKey, Num(7))>>),
      ul(<<Host("span", Num(7)), li(2, Num(2))>>)>>

Universes ==
    <<ListTops, CounterTops, ToggleTops, SyncTops, WidgetTops, ErrRenderTops,
      ErrEffectTops, ErrCleanupTops, HookTops, ContextTops, SubscribeTops,
      FuseTops, ActTops, RefTops, ReducerTops, MemoTops,
      UnkeyedTops, ProgTops, PlainTops, FragileTops, MemoHookTops>>

\* The components attached below the root: those reachable from
\* Root._rootComponent through `output`.
RECURSIVE Subtree(_, _)
Subtree(cps, c) ==
    IF c <= 0 THEN {}
    ELSE {c} \cup UNION {Subtree(cps, cps[c].output[i]) : i \in 1..Len(cps[c].output)}

MountedSet == Subtree(comps, rootComponent)
Mounted(c) == c \in MountedSet

\* An empty container that no Root was constructed for.
InitIn(universes) ==
    /\ activeRoots = FALSE
    /\ roots = 0
    /\ rootBase = 0
    /\ refs = <<NoNode, NoNode>>
    /\ comps = <<>>
    /\ dom = <<NewNode("container", "")>>
    /\ rootComponent = NoComp
    /\ pendingUpdate = <<>>
    /\ pendingLayoutEffects = <<>>
    /\ pendingEffects = <<>>
    /\ microtasks = <<>>
    /\ timers = <<>>
    /\ retired = <<>>
    /\ currentError = NoError
    /\ currentHooks = NoComp
    /\ gen = 0
    /\ steps = 0
    /\ tops \in {universes[u] : u \in 1..Len(universes)}
    /\ actDepth = 0
    /\ callbacks = 0
    /\ dirtyRootsEnabled = FALSE
    /\ log = NoLog

Init == InitIn(Universes)

\* The state a call leaves behind in the root and the modules, whether it
\* returned or threw.
CommitState(s, op, arg) ==
    /\ comps' = s.comps
    /\ dom' = s.dom
    /\ rootComponent' = s.root
    /\ pendingUpdate' = s.pu
    /\ pendingLayoutEffects' = s.ple
    /\ pendingEffects' = s.pe
    /\ microtasks' = s.microtasks
    /\ timers' = s.timers
    /\ currentError' = s.err
    /\ currentHooks' = s.cur
    /\ gen' = s.gen
    /\ steps' = steps + 1
    /\ log' = [s.log EXCEPT !.op = op, !.arg = arg, !.threw = s.exc # "",
                            !.exc = s.exc, !.queued = pendingUpdate]
    /\ dirtyRootsEnabled' = s.enabled
    /\ activeRoots' = s.active
    /\ roots' = s.roots
    /\ rootBase' = s.base
    /\ retired' = s.retired
    /\ refs' = s.refs
    /\ UNCHANGED tops

\* The state a top-level call other than act leaves behind.
Commit(s, op, arg) ==
    /\ CommitState(s, op, arg)
    /\ UNCHANGED <<actDepth, callbacks>>

\* render(vnode, container), the vnode expression evaluated anew.
Render(i) ==
    /\ steps < MaxSteps
    /\ Commit(renderInto([St EXCEPT !.gen = gen + 1], Stamp(tops[i], gen + 1)),
              "render", i)

\* A state setter called from outside render: an event handler, or a caller
\* that kept the setter of component c.
CallSetter(c, i, newState) ==
    /\ steps < MaxSteps
    /\ comps[c].hooks[i].type = "state"
    /\ comps[c].hooks[i].setter = "setState"
    /\ newState.fn => comps[c].hooks[i].value < MaxCount
    /\ Commit(SwitchRoot(setter(SwitchRoot([St EXCEPT !.log.wasMounted = Mounted(c),
                                                      !.log.cell = i,
                                                      !.log.upd = newState],
                                           comps[c].owner),
                                c, i, newState),
                         comps[c].owner),
              "setter", c)

\* A dispatch called from outside render: an event handler that sends
\* `action` to the reducer of cell i of component c.
CallDispatch(c, i, action) ==
    /\ steps < MaxSteps
    /\ comps[c].hooks[i].type = "state"
    /\ comps[c].hooks[i].setter = "dispatch"
    /\ action = "increment" => comps[c].hooks[i].value < MaxCount
    /\ action = "decrement" => comps[c].hooks[i].value > 0
    /\ Commit(SwitchRoot(dispatch(SwitchRoot([St EXCEPT !.log.wasMounted = Mounted(c),
                                                        !.log.cell = i,
                                                        !.log.action = action],
                                             comps[c].owner),
                                  c, i, action),
                         comps[c].owner),
              "dispatch", c)

\* The first microtask that _schedule queued: () => this._flushUpdates(),
\* `this` the Root that queued it.
Microtask ==
    /\ steps < MaxSteps
    /\ microtasks # <<>>
    /\ callbacks = 0
    /\ Commit(SwitchRoot(_flushUpdates(SwitchRoot([St EXCEPT !.microtasks = Tail(@)],
                                                  Head(microtasks))),
                         Head(microtasks)),
              "microtask", 0)

\* The after-paint callback armed by _schedule:
\* () => this._flushEffects(TASK_RUN_EFFECTS).  Timers run when no microtask
\* is left.
Timer ==
    /\ steps < MaxSteps
    /\ timers # <<>>
    /\ microtasks = <<>>
    /\ callbacks = 0
    /\ Commit(SwitchRoot(_flushEffects(SwitchRoot([St EXCEPT !.timers = Tail(@)],
                                                  Head(timers)),
                                       TASK_RUN_EFFECTS),
                         Head(timers)),
              "timer", 0)

\* A hook called by code that no render is running, as in
\* assert.throws(() => { useState(null) }).
HookOutside ==
    /\ steps < MaxSteps
    /\ tops = HookTops
    /\ Commit(useState(St, NoComp, 0), "hook", 0)

Next ==
    \/ \E i \in 1..Len(tops) : Render(i)
    \/ HookOutside
    \/ \E c \in 1..Len(comps) : \E i \in 1..Len(comps[c].hooks) :
         \E newState \in {Increment, SetTo(0)} : CallSetter(c, i, newState)
    \/ \E c \in 1..Len(comps) : \E i \in 1..Len(comps[c].hooks) :
         \E action \in {"increment", "decrement", "ignore-me"} :
            CallDispatch(c, i, action)
    \/ Microtask
    \/ Timer

Spec == Init /\ [][Next]_vars

\* act(callback) up to the call of callback:
\*     if (++actDepth === 1) { dirtyRoots.enabled = true }
ActEnter ==
    /\ actDepth < MaxActDepth
    /\ actDepth' = actDepth + 1
    /\ callbacks' = callbacks + 1
    /\ dirtyRootsEnabled' = (dirtyRootsEnabled \/ actDepth = 0)
    /\ log' = [St.log EXCEPT !.op = "actEnter"]
    /\ UNCHANGED <<comps, dom, rootComponent, pendingUpdate, pendingLayoutEffects,
                   pendingEffects, microtasks, timers, currentError, currentHooks,
                   gen, steps, tops, activeRoots, roots, rootBase, retired,
                   refs>>

\* act when callback returned a value that is no thenable:
\*     --actDepth; flushAllRoots()
ActReturn ==
    /\ steps < MaxSteps
    /\ callbacks > 0
    /\ actDepth' = actDepth - 1
    /\ callbacks' = callbacks - 1
    /\ CommitState(flushAllRoots(St, actDepth - 1), "actReturn", 0)

\* An act without the catch block: a callback that throws leaves actDepth
\* as it was.
ActThrowKeepsDepth ==
    /\ steps < MaxSteps
    /\ callbacks > 0
    /\ UNCHANGED actDepth
    /\ callbacks' = callbacks - 1
    /\ CommitState(Throw([St EXCEPT !.log.actThrew = TRUE], "Something went wrong"),
                   "actThrow", 0)

\* act when callback threw:  catch (err) { --actDepth; throw err }
ActThrow ==
    /\ steps < MaxSteps
    /\ callbacks > 0
    /\ actDepth' = actDepth - 1
    /\ callbacks' = callbacks - 1
    /\ CommitState(Throw([St EXCEPT !.log.actThrew = TRUE], "Something went wrong"),
                   "actThrow", 0)

\* act when callback returned a promise: return result.finally(...)
ActReturnPromise ==
    /\ steps < MaxSteps
    /\ callbacks > 0
    /\ callbacks' = callbacks - 1
    /\ UNCHANGED actDepth
    /\ CommitState([St EXCEPT !.log.promises = @ + 1], "actPromise", 0)

\* The promise that act returned rejects with the reason of the promise of
\* the callback, unless the reaction threw first.
Settled(s, rejected) ==
    IF rejected
      THEN Throw([s EXCEPT !.log.actThrew = TRUE], "Something went wrong asynchronously")
    ELSE s

\* The promise of an act callback settled, fulfilled or rejected:
\*     () => { --actDepth; flushAllRoots() }
\* A promise reaction runs when no callback is running.
ActSettle(rejected) ==
    /\ steps < MaxSteps
    /\ callbacks = 0
    /\ actDepth > 0
    /\ actDepth' = actDepth - 1
    /\ UNCHANGED callbacks
    /\ CommitState(Settled(flushAllRoots([St EXCEPT !.log.promises = @ - 1],
                                         actDepth - 1),
                           rejected),
                   "actSettle", 0)

\* unmountComponentAtNode(container)
UnmountAtNode ==
    /\ steps < MaxSteps
    /\ Commit(unmountComponentAtNode(St), "unmountAtNode", 0)

\* flushRoot(container), as the enzyme adapter calls it
FlushRoot ==
    /\ steps < MaxSteps
    /\ Commit(flushRoot(St), "flushRoot", 0)

\* The containers of the tests of unmountComponentAtNode.
RootUniverses == <<CounterTops, ErrCleanupTops, ActTops, ReducerTops>>

RootInit == InitIn(RootUniverses)

RootNext ==
    \/ \E i \in 1..Len(tops) : Render(i)
    \/ \E c \in 1..Len(comps) : \E i \in 1..Len(comps[c].hooks) :
         \E newState \in {Increment, SetTo(0)} : CallSetter(c, i, newState)
    \/ \E c \in 1..Len(comps) : \E i \in 1..Len(comps[c].hooks) :
         \E action \in {"increment", "decrement", "ignore-me"} :
            CallDispatch(c, i, action)
    \/ Microtask
    \/ Timer
    \/ UnmountAtNode
    \/ FlushRoot

RootSpec == RootInit /\ [][RootNext]_vars

\* The prop bags over two keys whose values are undefined or one of two
\* strings.
PropBags == UNION {[keys -> {"undefined", "a", "b"}] : keys \in SUBSET {"x", "y"}}

\* A caller that compares two prop bags both ways:
\*     [shallowEqual(a, b), shallowEqual(b, a)]
CallShallowEqual(a, b) ==
    /\ steps < MaxSteps
    /\ Commit([St EXCEPT !.log.bags = <<a, b>>,
                         !.log.equal = <<shallowEqual(a, b), shallowEqual(b, a)>>],
              "shallowEqual", 0)

EqualInit == InitIn(<<MemoTops>>)
EqualNext == \E a \in PropBags : \E b \in PropBags : CallShallowEqual(a, b)
EqualSpec == EqualInit /\ [][EqualNext]_vars

\* The containers of the tests of act.
ActUniverses == <<CounterTops, SyncTops, ErrEffectTops, ActTops>>

ActInit == InitIn(ActUniverses)

ActNext ==
    \/ \E i \in 1..Len(tops) : Render(i)
    \/ \E c \in 1..Len(comps) : \E i \in 1..Len(comps[c].hooks) :
         \E newState \in {Increment, SetTo(0)} : CallSetter(c, i, newState)
    \/ Microtask
    \/ Timer
    \/ ActEnter
    \/ ActReturn
    \/ ActThrow
    \/ ActReturnPromise
    \/ \E rejected \in BOOLEAN : ActSettle(rejected)

ActSpec == ActInit /\ [][ActNext]_vars

-----------------------------------------------------------------------------
(* Properties.                                                             *)

\* The type of the element a component renders, "" for a text component.
TypeOf(cps, c) == IF isValidElement(cps[c].vnode) THEN cps[c].vnode.type ELSE ""

Elems(seq) == {seq[i] : i \in 1..Len(seq)}
Count(seq, x) == Cardinality({i \in 1..Len(seq) : seq[i] = x})

\* The host nodes a component contributes to its host parent, read off the
\* component tree: its own node, or what its output contributes, in order.
RECURSIVE Contrib(_, _)
RECURSIVE ContribAll(_, _)
Contrib(cps, c) ==
    IF c <= 0 THEN <<>>
    ELSE IF cps[c].dom # NoNode THEN <<cps[c].dom>>
    ELSE ContribAll(cps, cps[c].output)
ContribAll(cps, out) ==
    IF out = <<>> THEN <<>>
    ELSE Contrib(cps, Head(out)) \o ContribAll(cps, Tail(out))

\* The nodes below n in the host tree.
RECURSIVE NodesBelow(_, _)
NodesBelow(d, n) ==
    UNION {{d[n].kids[i]} \cup NodesBelow(d, d[n].kids[i]) : i \in 1..Len(d[n].kids)}

\* The nodes attached to the document below the container.
Attached == NodesBelow(dom, Container)

\* Node.textContent
RECURSIVE textContent(_, _)
RECURSIVE textOfAll(_, _)
textContent(d, n) ==
    IF d[n].tag = "#text" THEN d[n].data ELSE textOfAll(d, d[n].kids)
textOfAll(d, ns) ==
    IF ns = <<>> THEN "" ELSE textContent(d, Head(ns)) \o textOfAll(d, Tail(ns))

\* The host tree mirrors the component tree.
Mirror ==
    /\ dom[Container].kids = Contrib(comps, rootComponent)
    /\ \A c \in MountedSet :
         comps[c].dom # NoNode =>
           dom[comps[c].dom].kids = ContribAll(comps, comps[c].output)
    /\ \A n \in Attached : Cardinality({c \in MountedSet : comps[c].dom = n}) = 1
    /\ \A c \in 1..Len(comps) :
         (c \notin MountedSet /\ comps[c].dom # NoNode) => comps[c].dom \notin Attached

\* C1: after every top-level render and every update flush that returns
\* normally, the children of the container and of every mounted host element
\* are the in-order concatenation of the nodes of their child components,
\* every attached node belongs to exactly one mounted component, and no node
\* of an unmounted component is attached.
C1_HostMirrorsComponents ==
    (log.op \in {"render", "microtask"} /\ ~log.threw) => Mirror

\* C4: a state setter called after its component has been unmounted never
\* causes that component's function to be invoked again and never changes
\* the host tree: an unmounted component is not rendered by any later step,
\* and a flush whose queue holds unmounted components only leaves the host
\* tree as it was.
C4_DanglingSetterIsInert ==
    [][/\ \A c \in 1..Len(comps) :
            c \notin MountedSet => comps'[c].nrender = comps[c].nrender
       /\ (log'.op = "microtask" /\ Elems(pendingUpdate) \cap MountedSet = {})
            => dom' = dom]_vars

\* The component among `out` whose vnode has key k.
ByKey(cps, out, k) == out[CHOOSE i \in 1..Len(out) : vnodeKey(cps[out[i]].vnode) = k]

KeysOf(vs) == {vnodeKey(vs[i]) : i \in 1..Len(vs)}

\* The re-render of a keyed list: the root is a <ul> and every child of the
\* new <ul> has the key of a previous child.
KeyedRerender(i) ==
    /\ tops = ListTops
    /\ rootComponent > 0
    /\ KeysOf(flattenChildren(tops[i].ch))
         \subseteq {vnodeKey(comps[c].vnode) : c \in Elems(comps[rootComponent].output)}

\* C2: when the children of a host element are re-rendered and every new
\* child has the key of a previous child of the same type, each child keeps
\* the host node it had, the node's content is the new content, and the
\* children of the host parent are in the order of the new children.
C2_KeyedReorder ==
    [][\A i \in 1..Len(tops) :
         (KeyedRerender(i) /\ log'.op = "render" /\ log'.arg = i) =>
            LET new == flattenChildren(tops[i].ch)
                list == comps[rootComponent].dom
            IN /\ rootComponent' = rootComponent
               /\ Len(dom'[list].kids) = Len(new)
               /\ \A p \in 1..Len(new) :
                    LET old == ByKey(comps, comps[rootComponent].output, new[p].key)
                    IN /\ comps'[rootComponent].output[p] = old
                       /\ comps'[old].dom = comps[old].dom
                       /\ dom'[list].kids[p] = comps[old].dom
                       /\ textContent(dom', comps[old].dom) = toString(new[p].ch)
      ]_vars

\* The count the function of a Counter saw in its last render: the child of
\* the <button> vnode it returned.
ObservedCount(cps, c) == cps[cps[c].output[1]].vnode.ch.n

\* A setter call on a mounted component: nothing is rendered, the host tree
\* is as before, the cell holds the new state (an updater applied to the
\* current state) and the component is queued.
SetterOnlyQueues ==
    (log'.op = "setter" /\ log'.wasMounted) =>
        /\ dom' = dom
        /\ \A d \in 1..Len(comps) : comps'[d].nrender = comps[d].nrender
        /\ comps'[log'.arg].hooks[log'.cell].value =
             IF log'.upd.fn THEN comps[log'.arg].hooks[log'.cell].value + 1
             ELSE log'.upd.v
        /\ log'.arg \in Elems(pendingUpdate')

\* The flush renders c once and its function sees the state of the cell.
RenderedOnce(c) ==
    /\ comps'[c].nrender = comps[c].nrender + 1
    /\ TypeOf(comps, c) = "Counter" =>
         ObservedCount(comps', c) = comps[c].hooks[1].value

\* The same for every flush that returns, also one during which a further
\* update is scheduled: setter calls on a mounted component leave the host content
\* unchanged until the microtask flush, and that flush invokes the function
\* of the component exactly once, with the state all the calls produced.
C3_AsStated ==
    [][/\ SetterOnlyQueues
       /\ (log'.op = "microtask" /\ ~log'.threw) =>
            \A c \in Elems(pendingUpdate) \cap MountedSet :
               c \in Subtree(comps', rootComponent') => RenderedOnce(c)]_vars

\* C3: setter calls on a mounted component leave the host content unchanged
\* until the microtask flush; the flush invokes the function of a component
\* that is queued and stays mounted exactly once, with the state all the
\* calls produced, when no further update is scheduled while the flush runs.
C3_SetterBatching ==
    [][/\ SetterOnlyQueues
       /\ (log'.op = "microtask" /\ ~log'.lateSched) =>
            \A c \in Elems(pendingUpdate) \cap MountedSet :
               c \in Subtree(comps', rootComponent') => RenderedOnce(c)]_vars

\* Two calls of c => c + 1 from 0 were flushed by one re-render of a Counter.
C3_Witness ==
    /\ log.op = "microtask" /\ ~log.threw /\ ~log.lateSched
    /\ \E c \in Elems(log.queued) \cap MountedSet :
         /\ TypeOf(comps, c) = "Counter"
         /\ comps[c].nrender = 2
         /\ comps[c].hooks[1].value = 2
         /\ ObservedCount(comps, c) = 2

\* C5: a component that a step unmounts is in none of the three queues when
\* the step ends and each cleanup it held has been called; an effect body
\* that was pending when its component was unmounted is never run, and the
\* function of an unmounted component is never invoked.
C5_UnmountCancels ==
    [][/\ \A c \in MountedSet :
            c \notin Subtree(comps', rootComponent') =>
              /\ c \notin Elems(pendingUpdate') \cup Elems(pendingLayoutEffects')
                            \cup Elems(pendingEffects')
              /\ \A i \in 1..Len(comps[c].hooks) :
                   /\ comps'[c].hooks[i].cleanup = NoFn
                   /\ comps[c].hooks[i].cleanup # NoFn =>
                        comps'[c].hooks[i].cleans = comps[c].hooks[i].cleans + 1
       /\ ~log'.ranCancelled
       /\ \A c \in 1..Len(comps) :
            c \notin MountedSet => comps'[c].nrender = comps[c].nrender]_vars

\* The effect cells whose body returns a cleanup function.
TickCell(c, i) == TypeOf(comps, c) \in {"Widget", "LayoutWidget", "Pair"} /\ i = 2

\* C7: for every effect cell whose body returns a cleanup, cleanups <= bodies
\* <= cleanups + 1 in every state, and the two are equal once the component
\* is unmounted.
C7_BodiesAndCleanupsAlternate ==
    \A c \in 1..Len(comps) : \A i \in 1..Len(comps[c].hooks) :
        TickCell(c, i) =>
          /\ comps[c].hooks[i].cleans <= comps[c].hooks[i].runs
          /\ comps[c].hooks[i].runs <= comps[c].hooks[i].cleans + 1
          /\ c \notin MountedSet => comps[c].hooks[i].runs = comps[c].hooks[i].cleans

\* What the function of component v passes as the dependencies of its
\* effect cell i in a render.
DepsOmittedNow(v, i) == IF v.type = "Pair" THEN i = 3 ELSE v.p.deps = "none"
DepsNow(v, i) == IF v.type # "Pair" /\ v.p.deps = "tag" THEN <<v.p.tag>> ELSE <<>>

\* A re-render of c leaves effect cell i alone when the dependency lists are
\* equal; otherwise it calls the cleanup the cell holds and schedules the
\* body, which a layout effect runs before the step ends.
EffectCellStep(c, i) ==
    LET prev == comps[c].hooks[i]
        cur == comps'[c].hooks[i]
    IN IF \/ DepsOmittedNow(comps'[c].vnode, i)
          \/ prev.depsNull
          \/ prev.deps # DepsNow(comps'[c].vnode, i)
         THEN /\ cur.cleans = prev.cleans + (IF prev.cleanup # NoFn THEN 1 ELSE 0)
              /\ IF cur.task = TASK_RUN_LAYOUT_EFFECTS
                   THEN cur.runs = prev.runs + 1 /\ cur.pendingEffect = NoFn
                 ELSE /\ cur.runs = prev.runs
                      /\ cur.pendingEffect # NoFn
                      /\ c \in Elems(pendingEffects')
                      /\ timers' # <<>>
       ELSE /\ cur.cleans = prev.cleans
            /\ cur.runs = prev.runs
            /\ cur.pendingEffect = prev.pendingEffect
            /\ cur.cleanup = prev.cleanup

\* C6: on a re-render an effect hook calls its previous cleanup and
\* schedules its body again if and only if its dependency list is omitted
\* or differs from the list of the previous render; with equal lists, the
\* empty list included, neither runs.  So the body of an effect with [] runs
\* at most once over any number of re-renders and its cleanup runs once,
\* when the component is unmounted.
C6_EffectDeps ==
    [][\A c \in 1..Len(comps) :
         TypeOf(comps, c) \in {"Widget", "LayoutWidget", "Pair"} =>
           /\ comps'[c].nrender = comps[c].nrender + 1 =>
                \A i \in 1..Len(comps[c].hooks) :
                   comps[c].hooks[i].type = "effect" => EffectCellStep(c, i)
           /\ TypeOf(comps, c) = "Pair" =>
                /\ comps'[c].hooks[2].runs <= 1
                /\ c \in Subtree(comps', rootComponent') =>
                     comps'[c].hooks[2].cleans = 0
                /\ (c \in MountedSet /\ c \notin Subtree(comps', rootComponent')) =>
                     comps'[c].hooks[2].cleans = comps[c].hooks[2].runs]_vars

\* A Widget mounted with [1] was re-rendered with [1], which left its effect
\* alone, and then with [2], which called the cleanup and scheduled the body.
C6_Witness ==
    \E c \in MountedSet :
        /\ TypeOf(comps, c) = "Widget"
        /\ comps[c].nrender = 3
        /\ comps[c].hooks[2].runs = 1
        /\ comps[c].hooks[2].cleans = 1
        /\ comps[c].hooks[2].deps = <<2>>
        /\ comps[c].hooks[2].pendingEffect # NoFn

RECURSIVE IsAncestor(_, _, _)
IsAncestor(cps, a, d) ==
    /\ cps[d].parent # NoComp
    /\ (cps[d].parent = a \/ IsAncestor(cps, a, cps[d].parent))

\* C8: in one update flush a queued component is rendered before any queued
\* descendant of it, and when no update is scheduled during the flush no
\* component that was queued when the flush began is rendered more than
\* once, whether on its own or by the diff of an ancestor.
C8_ParentBeforeDescendant ==
    [][log'.op = "microtask" =>
         /\ \A a \in Elems(pendingUpdate) : \A d \in Elems(pendingUpdate) :
              (IsAncestor(comps, a, d) /\ d \in Elems(log'.invoked)) =>
                 /\ a \in Elems(log'.invoked)
                 /\ IndexOf(log'.invoked, a) < IndexOf(log'.invoked, d)
         /\ ~log'.lateSched =>
              \A c \in Elems(pendingUpdate) : Count(log'.invoked, c) <= 1]_vars

\* A flush whose queue held a component before its ancestor rendered the
\* ancestor first and the descendant once, as part of the ancestor's diff.
C8_Witness ==
    /\ log.op = "microtask" /\ ~log.lateSched /\ ~log.threw
    /\ \E a \in Elems(log.queued) : \E d \in Elems(log.queued) :
         /\ IsAncestor(comps, a, d)
         /\ IndexOf(log.queued, d) < IndexOf(log.queued, a)
         /\ Count(log.invoked, a) = 1 /\ Count(log.invoked, d) = 1
         /\ IndexOf(log.invoked, a) < IndexOf(log.invoked, d)
         /\ d \notin Elems(log.flushed)

\* The host shows the state of every mounted child that keeps itself in
\* step with its parent, and a SyncChild holds the count it was passed.
HostReflectsState ==
    \A k \in MountedSet :
        TypeOf(comps, k) \in {"SyncChild", "LayoutSync"} =>
           /\ textContent(dom, comps[comps[k].parent].dom)
                = NumToString(comps[k].hooks[1].value)
           /\ TypeOf(comps, k) = "SyncChild" =>
                comps[k].hooks[1].value = comps[k].vnode.p.count

\* C9: updates scheduled while an update flush is running are processed by
\* that flush: when it returns normally the update queue is empty and the
\* host content shows the state they produced.
C9_SameFlush ==
    (log.op = "microtask" /\ ~log.threw) =>
        (pendingUpdate = <<>> /\ HostReflectsState)

\* C10: a component diffed against the very vnode object it last rendered is
\* left as it is, with its subtree, hooks and host nodes, and its function is
\* not invoked, unless it has a pending update, in which case it is rendered.
\* The child of App is such a component whenever App is rendered again.
C10_BailOut ==
    [][\A c \in MountedSet :
         (/\ log'.op = "render"
          /\ comps[c].vnode = childNode
          /\ c \in Subtree(comps', rootComponent')) =>
            IF c \in Elems(pendingUpdate)
              THEN comps'[c].nrender = comps[c].nrender + 1
            ELSE \A d \in Subtree(comps, c) :
                   /\ comps'[d] = comps[d]
                   /\ comps[d].dom # NoNode =>
                        dom'[comps[d].dom] = dom[comps[d].dom]]_vars

\* App was rendered twice and its child, diffed against the same vnode
\* object, once.
C10_Witness ==
    /\ log.op = "render"
    /\ \E c \in MountedSet :
         /\ comps[c].vnode = childNode
         /\ c \in Elems(log.bailed)
         /\ comps[c].nrender = 1
         /\ comps[comps[comps[c].parent].parent].nrender = 2

\* A vnode without what a re-render may change freely: the identity of the
\* objects and the text of the text nodes.  What is left is the sequence of
\* (key, type) at every level, with the props.
RECURSIVE Shape(_)
ShapeAll(items) == [i \in 1..Len(items) |-> Shape(items[i])]
Shape(v) ==
    CASE v.k = "elem" -> [v EXCEPT !.oid = 0, !.ch = Shape(v.ch)]
      [] v.k = "arr" -> Arr(ShapeAll(v.items))
      [] v.k = "text" -> Str("")
      [] OTHER -> Null

\* The vnode the root component stands for.
RootVNode == IF rootComponent = EmptyComp THEN Null ELSE comps[rootComponent].vnode

\* render(tops[i], container) when the tree already has the shape of tops[i]
\* and no state update is pending.
SameShapeRerender(i) ==
    /\ rootComponent # NoComp
    /\ pendingUpdate = <<>>
    /\ Shape(RootVNode) = Shape(tops[i])
    /\ log'.op = "render" /\ log'.arg = i /\ ~log'.threw

\* C11: a re-render whose children have, at every level, the (key, type)
\* sequence of the previous children performs no host insert and no host
\* remove, and every component keeps the host node it had; the same vnode
\* rendered twice in a row leaves every host node as it was.
C11_SameShapeKeepsHost ==
    [][\A i \in 1..Len(tops) :
         SameShapeRerender(i) =>
            /\ log'.inserts = 0 /\ log'.removes = 0
            /\ NodesBelow(dom', Container) = Attached
            /\ \A c \in MountedSet :
                 /\ c \in Subtree(comps', rootComponent')
                 /\ comps'[c].dom = comps[c].dom
            /\ (log.op = "render" /\ log.arg = i /\ ~log.threw) => dom' = dom
      ]_vars

\* The cell i of component c as it was before the step, or a cell that was
\* never scheduled or run when the step created it.
CellBefore(c, i) ==
    IF c <= Len(comps) /\ i <= Len(comps[c].hooks) THEN comps[c].hooks[i]
    ELSE [runs |-> 0, sched |-> 0, cleans |-> 0]

\* C12: when render returns normally, every layout effect that the render
\* scheduled has been run and the layout-effect queue is empty, and no
\* post-commit effect body has been run by the render.
C12_LayoutEffectsBeforeReturn ==
    [][(log'.op = "render" /\ ~log'.threw) =>
         /\ pendingLayoutEffects' = <<>>
         /\ \A c \in Subtree(comps', rootComponent') :
              \A i \in 1..Len(comps'[c].hooks) :
                 comps'[c].hooks[i].type = "effect" =>
                    IF comps'[c].hooks[i].task = TASK_RUN_LAYOUT_EFFECTS
                      THEN comps'[c].hooks[i].sched > CellBefore(c, i).sched
                             => comps'[c].hooks[i].runs > CellBefore(c, i).runs
                    ELSE comps'[c].hooks[i].runs = CellBefore(c, i).runs]_vars

\* The components the step found mounted or created.
InStep == MountedSet \cup (Len(comps) + 1)..Len(comps')

\* Every cleanup that a component of the step held or obtained has been
\* called: no cell holds one, except one that threw when it was called.
CleanupsRan ==
    \A c \in InStep : \A i \in 1..Len(comps'[c].hooks) :
        /\ comps'[c].hooks[i].cleanup # NoFn =>
             /\ comps'[c].hooks[i].cleanup.fn = "unboom"
             /\ comps'[c].hooks[i].cleans > CellBefore(c, i).cleans
        /\ (c \in MountedSet /\ comps[c].hooks[i].cleanup # NoFn) =>
             comps'[c].hooks[i].cleans > comps[c].hooks[i].cleans

\* C13: when the boundary walk for a user-code exception of a top-level
\* render or flush ends without a handler that returned, the render or flush
\* ends with the tree of the root unmounted, the container empty and every
\* cleanup called, and it throws to its caller.
C13_UnhandledUnmountsAndThrows ==
    [][(log'.op \in {"render", "microtask", "timer"} /\ log'.unhandled # <<>>) =>
         /\ log'.threw
         /\ rootComponent' = EmptyComp
         /\ dom'[Container].kids = <<>>
         /\ CleanupsRan]_vars

\* The ErrorBoundary ancestors of c, the nearest first.
RECURSIVE BoundariesAbove(_, _)
BoundariesAbove(cps, c) ==
    IF cps[c].parent = NoComp THEN <<>>
    ELSE (IF TypeOf(cps, cps[c].parent) = "ErrorBoundary"
            THEN <<cps[c].parent>> ELSE <<>>)
         \o BoundariesAbove(cps, cps[c].parent)

\* The outcomes the handler of boundary b may have in this step: whether the
\* handler prop of its vnode returns, for the vnode b holds after the step
\* and, as the walk reads the vnode b holds when it gets there, for the one
\* b held before.
HandlerReturns(v) == v.p.handler # "throw"
Outcomes(b) ==
    {HandlerReturns(comps'[b].vnode)}
      \cup (IF b <= Len(comps) THEN {HandlerReturns(comps[b].vnode)} ELSE {})

\* The number of handler calls of the first walk: up to the first handler
\* that returned, or one per boundary.
CallsOfWalk(calls, bs) ==
    IF \E k \in 1..Len(bs) : k <= Len(calls) /\ calls[k][3]
      THEN CHOOSE k \in 1..Len(bs) :
             /\ k <= Len(calls) /\ calls[k][3]
             /\ \A j \in 1..(k - 1) : ~calls[j][3]
    ELSE Len(bs)

\* C14: when the first exception of a render or flush escapes a component
\* below an ErrorBoundary, the handler of the nearest boundary is called once
\* with that error and no boundary farther up is called, unless the handler
\* throws: then the walk goes on at the next boundary above with the error
\* the handler threw.  When a handler returns, the render or flush does not
\* throw and the error unmounts nothing.
C14_NearestBoundary ==
    [][(log'.op \in {"render", "microtask", "timer"} /\ log'.walks # <<>>) =>
         LET bs == BoundariesAbove(comps', log'.walks[1][1])
             n == CallsOfWalk(log'.handled, bs)
         IN bs # <<>> =>
              /\ log'.walks[1][2] = log'.raised[1]
              /\ Len(log'.handled) >= n
              /\ Len(log'.walks) = 1 => Len(log'.handled) = n
              /\ \A k \in 1..n :
                   /\ log'.handled[k][1] = bs[k]
                   /\ log'.handled[k][2] = IF k = 1 THEN log'.walks[1][2]
                                           ELSE "Error from boundary"
                   /\ log'.handled[k][3] \in Outcomes(bs[k])
              /\ IF log'.handled[n][3]
                   THEN /\ Len(log'.walks) = 1 => ~log'.threw
                        /\ IF log'.op = "render"
                             THEN rootComponent' = EmptyComp
                                    <=> isEmptyVNode(tops[log'.arg])
                           ELSE rootComponent' = rootComponent
                 ELSE n = Len(bs) /\ log'.unhandled[1] = "Error from boundary"]_vars

\* A render in which the handler of the inner boundary threw and the handler
\* of the outer boundary returned: the render returned and the tree is
\* mounted.
C14_Witness ==
    /\ log.op = "render" /\ ~log.threw /\ rootComponent > 0
    /\ Len(log.handled) = 2
    /\ log.handled[1][2] = "Error in 1" /\ ~log.handled[1][3]
    /\ log.handled[2][2] = "Error from boundary" /\ log.handled[2][3]
    /\ comps[log.handled[1][1]].parent = log.handled[2][1]

\* The errors a walk may carry when the first error raised is `first`: the
\* first error to the first handler called, and to each later one the error
\* thrown by the handler called before it.
CarriesFirst(calls, first) ==
    \A k \in 1..Len(calls) :
        calls[k][2] = IF k = 1 THEN first ELSE "Error from boundary"

\* C15: of the user errors raised during one render or flush only the first
\* is propagated: the handlers are called with it (or with what the handler
\* below them threw) and the caller is thrown it (or what the last handler
\* threw); no later error reaches a handler or the caller.
C15_FirstErrorOnly ==
    [][(log'.op \in {"render", "microtask", "timer"} /\ log'.raised # <<>>) =>
         /\ CarriesFirst(log'.handled, log'.raised[1])
         /\ log'.threw =>
              log'.exc = IF log'.handled # <<>> THEN "Error from boundary"
                         ELSE log'.raised[1]]_vars

\* The errors that the effect bodies of the programs throw.
EffectErrors ==
    {"Effect error " \o NumToString(id) : id \in 1..2}
      \cup {"Hook called outside of component"}

EffectThrew(l) == \E k \in 1..Len(l.raised) : l.raised[k] \in EffectErrors

\* The post-commit effects pending when a flush starts: the cells with a
\* pending effect of the components in the queue.
PendingCells ==
    {<<pendingEffects[k], i>> : k \in 1..Len(pendingEffects), i \in 1..4}

IsPending(c, i) ==
    /\ i <= Len(comps[c].hooks)
    /\ comps[c].hooks[i].type = "effect"
    /\ comps[c].hooks[i].task = TASK_RUN_EFFECTS
    /\ comps[c].hooks[i].pendingEffect # NoFn

\* C16: in a flush of effects in which an effect body throws, every other
\* effect pending in the flush is run all the same, in the component of the
\* throwing effect and in the others; the error starts a boundary walk and
\* the queue is empty after the flush.  The post-commit flush is the timer
\* step; the layout flush is the one at the end of a render.
C16_EffectThrowIsolated ==
    [][/\ (log'.op = "timer" /\ EffectThrew(log')) =>
            /\ pendingEffects' = <<>>
            /\ log'.walks # <<>>
            /\ \A p \in PendingCells :
                 IsPending(p[1], p[2]) =>
                    comps'[p[1]].hooks[p[2]].runs > comps[p[1]].hooks[p[2]].runs
       /\ (log'.op = "render" /\ EffectThrew(log')) =>
            /\ pendingLayoutEffects' = <<>>
            /\ log'.walks # <<>>
            /\ \A c \in 1..Len(comps') : \A i \in 1..Len(comps'[c].hooks) :
                 (/\ comps'[c].hooks[i].type = "effect"
                  /\ comps'[c].hooks[i].task = TASK_RUN_LAYOUT_EFFECTS
                  /\ comps'[c].hooks[i].sched > CellBefore(c, i).sched) =>
                    comps'[c].hooks[i].runs > CellBefore(c, i).runs]_vars

\* The errors that the cleanups of the programs throw.
CleanupErrors == {"Cleanup error " \o NumToString(id) : id \in 1..2}

CleanupThrew(l) == \E k \in 1..Len(l.raised) : l.raised[k] \in CleanupErrors

\* The components that the step unmounted.
Unmounted == {c \in MountedSet : c \notin Subtree(comps', rootComponent')}

\* C17: when a step unmounts components and one of their cleanups throws,
\* the error starts a boundary walk and every cleanup that the unmounted
\* components held is called all the same, in the component of the throwing
\* cleanup and in the others.
C17_CleanupThrowIsolated ==
    [][(log'.op \in {"render", "microtask", "timer"} /\ CleanupThrew(log')) =>
         /\ log'.walks # <<>>
         /\ \A c \in Unmounted : \A i \in 1..Len(comps[c].hooks) :
              comps[c].hooks[i].cleanup # NoFn =>
                 comps'[c].hooks[i].cleans > comps[c].hooks[i].cleans]_vars

HookMismatch ==
    "Hook type mismatch. Hooks must be called in same order on each render."

\* The type of the cell that the k-th hook call of HookSeq asks for.
CellType(kind) == IF kind = "state" THEN "state" ELSE "effect"

\* The hook calls of a render with `order` that meet a cell of another type
\* among the cells `hooks` of the earlier renders.
Divergent(hooks, order) ==
    {k \in 1..Len(order) : k <= Len(hooks) /\ hooks[k].type # CellType(order[k])}

Least(S) == CHOOSE k \in S : \A j \in S : k <= j

\* The HookSeq components that the step rendered again.
Rerendered ==
    {c \in MountedSet : TypeOf(comps, c) = "HookSeq" /\ TypeOf(comps', c) = "HookSeq"
                        /\ c \in Elems(log'.invoked)}

\* C18: when a re-render of a component calls a hook of another type than
\* the cell an earlier render stored at that index, the hook type mismatch
\* error is raised by that call, the first divergent one: the cursor of the
\* component stays on its index and no cell is added.  A re-render whose
\* hook calls meet cells of their own types raises no such error.
C18_HookOrder ==
    [][log'.op = "render" =>
         \A c \in Rerendered :
            IF Divergent(comps[c].hooks, comps'[c].vnode.p.order) # {}
              THEN /\ log'.raised # <<>> /\ log'.raised[1] = HookMismatch
                   /\ comps'[c].hidx + 1
                        = Least(Divergent(comps[c].hooks, comps'[c].vnode.p.order))
                   /\ Len(comps'[c].hooks) = Len(comps[c].hooks)
            ELSE HookMismatch \notin Elems(log'.raised)]_vars

\* A render that stopped at the second hook call, the first to meet a cell
\* of another type.
C18_Witness ==
    /\ log.op = "render" /\ log.raised # <<>> /\ log.raised[1] = HookMismatch
    /\ \E c \in 1..Len(comps) :
         /\ TypeOf(comps, c) = "HookSeq" /\ comps[c].hidx = 1
         /\ comps[c].hooks[2].type # CellType(comps[c].vnode.p.order[2])

HookOutsideError == "Hook called outside of component"

\* A pending post-commit effect whose body calls a hook.
HookyPending ==
    \E p \in PendingCells :
        IsPending(p[1], p[2]) /\ comps[p[1]].hooks[p[2]].pendingEffect.fn = "hooky"

\* C19: currentHooks is null whenever no component function is being called:
\* after every step, whether the functions returned or threw, and at the
\* start of every call of a component function and of an effect body.  A
\* hook called while it is null throws "Hook called outside of component":
\* the call made by code outside every render, which changes nothing, and
\* the call made by an effect body.  (When a component function throws,
\* _renderCustom walks the boundaries inside its catch block, before it
\* clears currentHooks: the variable is null again when _renderCustom ends.)
C19_HookSlot ==
    [][/\ currentHooks' = NoComp
       /\ log'.slotOk
       /\ log'.op = "hook" =>
            /\ log'.threw /\ log'.exc = HookOutsideError
            /\ comps' = comps /\ dom' = dom /\ rootComponent' = rootComponent
       /\ (log'.op = "timer" /\ HookyPending) =>
            log'.raised # <<>> /\ log'.raised[1] = HookOutsideError]_vars

\* A flush in which an effect body called a hook, after a render whose
\* component functions had ended.
C19_Witness ==
    /\ log.op = "timer" /\ log.raised # <<>> /\ log.raised[1] = HookOutsideError
    /\ currentHooks = NoComp /\ log.slotOk

\* C20: every useContext(type) call returns the value that the nearest
\* ancestor Provider of that type holds at the time of the call, whatever
\* Providers of the same type lie farther up and whatever Providers of other
\* types lie between, and the default value of the type when there is none.
\* The consumers are those mounted together with their Providers and those
\* mounted by a later render or update.
C20_NearestProvider ==
    [][\A k \in 1..Len(log'.ctx) : log'.ctx[k][3] = log'.ctx[k][4]]_vars

\* A consumer mounted by an update of its parent, long after its Providers,
\* that read the value of the Provider of its type above a Provider of
\* another type.
C20_Witness ==
    /\ log.op = "microtask" /\ Len(log.ctx) = 1
    /\ log.ctx[1] = <<log.ctx[1][1], "A", 1, 1>>
    /\ TypeOf(comps, comps[log.ctx[1][1]].parent) = "Late"
    /\ comps[log.ctx[1][1]].nrender = 1

\* Whether some ancestor of c is rendered from a Provider of `type`.
RECURSIVE HasProviderAbove(_, _, _)
HasProviderAbove(cps, c, type) ==
    IF cps[c].parent <= 0 THEN FALSE
    ELSE IsProviderOf(cps[cps[c].parent].vnode, type)
           \/ HasProviderAbove(cps, cps[c].parent, type)

\* C21: a useContext(type) call of a component without an ancestor Provider
\* of that type returns the default value given to createContext for the
\* type, also below Providers of other types: 7 for A and 8 for B.
C21_DefaultValue ==
    [][\A k \in 1..Len(log'.ctx) :
          ~HasProviderAbove(comps', log'.ctx[k][1], log'.ctx[k][2]) =>
             log'.ctx[k][3] = IF log'.ctx[k][2] = "A" THEN 7 ELSE 8]_vars

\* A consumer of A rendered below a Provider of B only.
C21_Witness ==
    /\ Len(log.ctx) = 1 /\ log.ctx[1][2] = "A" /\ log.ctx[1][3] = 7
    /\ TypeOf(comps, comps[log.ctx[1][1]].parent) = "ProviderB"
    /\ comps[comps[log.ctx[1][1]].parent].parent = NoComp

\* The Providers that held a ContextProvider before the step.
ProvidersBefore == {p \in 1..Len(comps) : comps[p].contextProvider # NoProvider}

\* The components whose listeners provider p held before the step.
Subscribers(p) ==
    {comps[p].contextProvider.listeners[k][1] :
        k \in 1..Len(comps[p].contextProvider.listeners)}

\* Component c called useContext in the step and got `value` from provider p.
RenderedWith(c, p, value) ==
    \E k \in 1..Len(log'.ctx) :
        /\ log'.ctx[k][1] = c /\ log'.ctx[k][3] = value
        /\ log'.ctx[k][2] = comps'[p].contextProvider.type

\* The context cells of c that hold provider p.
CellsOn(cps, c, p) ==
    {i \in 1..Len(cps[c].hooks) :
        cps[c].hooks[i].type = "context" /\ cps[c].hooks[i].provider = p}

\* C22: when a step renders a Provider with another value than it held,
\* each of its subscribers that is mounted after the step has either been
\* rendered in the step with the new value or is in the update queue, also
\* when its vnode is the object of the render before; the flush of the update
\* queue renders every queued consumer that stays mounted with the value its
\* Provider holds; and a Provider rendered with the value it held calls no
\* listener.
C22_ProviderNotifies ==
    [][/\ \A p \in ProvidersBefore :
            IF comps'[p].contextProvider.value # comps[p].contextProvider.value
              THEN \A c \in Subscribers(p) :
                      c \in Subtree(comps', rootComponent') =>
                         \/ RenderedWith(c, p, comps'[p].contextProvider.value)
                         \/ c \in Elems(pendingUpdate')
            ELSE \A k \in 1..Len(log'.notified) :
                    log'.notified[k] \notin Elems(comps[p].contextProvider.listeners)
       /\ log'.op = "microtask" =>
            \A c \in Elems(pendingUpdate) :
               \A p \in ProvidersBefore :
                  (c \in Subtree(comps', rootComponent') /\ CellsOn(comps, c, p) # {}) =>
                     RenderedWith(c, p, comps'[p].contextProvider.value)]_vars

\* A render that gave the Provider another value and rendered its consumer,
\* whose vnode was the object of the render before, with it.
C22_Witness ==
    /\ log.op = "render" /\ tops = SubscribeTops /\ log.notified # <<>>
    /\ log.bailed = <<>>
    /\ \E k \in 1..Len(log.ctx) : log.ctx[k][3] = 2
    /\ \E c \in MountedSet : TypeOf(comps, c) = "Consumer" /\ comps[c].nrender = 2

\* The listeners of every ContextProvider, of mounted and unmounted Providers.
AllListeners ==
    UNION {Elems(comps[p].contextProvider.listeners) :
              p \in {q \in 1..Len(comps) : comps[q].contextProvider # NoProvider}}

\* C23: every listener a ContextProvider holds belongs to a mounted
\* component, so the listener of an unmounted consumer is gone and a value
\* change cannot schedule it.
C23_SubscribersMounted ==
    \A l \in AllListeners : l[1] \in MountedSet

\* A consumer was unmounted by a render that kept its Provider, and the
\* Provider holds no listener.
C23_Witness ==
    /\ log.op = "render" /\ tops = SubscribeTops /\ log.removes > 0
    /\ \E p \in MountedSet :
          /\ comps[p].contextProvider # NoProvider
          /\ comps[p].contextProvider.listeners = <<>>
    /\ \E c \in 1..Len(comps) :
          c \notin MountedSet /\ TypeOf(comps, c) = "Consumer"

\* The step is the exit of the outermost act call, by the return of its
\* callback or by the settling of its promise, and the flush of act did not
\* throw.
OutermostExit ==
    /\ log'.op \in {"actReturn", "actSettle"}
    /\ actDepth' = 0
    /\ log'.exc \in {"", "Something went wrong asynchronously"}

QueuesEmpty(pu, ple, pe) == pu = <<>> /\ ple = <<>> /\ pe = <<>>

\* The effect cells of mounted components whose effect is scheduled and has
\* not been called.
Unapplied(cps, root) ==
    {ci \in Subtree(cps, root) \X (1..4) :
        /\ ci[2] <= Len(cps[ci[1]].hooks)
        /\ cps[ci[1]].hooks[ci[2]].type = "effect"
        /\ cps[ci[1]].hooks[ci[2]].pendingEffect # NoFn
        /\ ~cps[ci[1]].hooks[ci[2]].called}

\* C24: when the outermost act call exits without throwing, the three queues
\* of the root are empty, no mounted component holds an effect that was
\* scheduled and not called, and every component that was queued for an
\* update and is still mounted has been rendered; and an act(() => {}) on a
\* root whose queues are empty leaves the component tree and the DOM as they
\* were.
C24_ActDrains ==
    [][/\ OutermostExit =>
            /\ QueuesEmpty(pendingUpdate', pendingLayoutEffects', pendingEffects')
            /\ Unapplied(comps', rootComponent') = {}
            /\ \A c \in Elems(pendingUpdate) :
                  c \in Subtree(comps', rootComponent') => c \in Elems(log'.invoked)
       /\ (/\ OutermostExit
           /\ log.op = "actEnter"
           /\ QueuesEmpty(pendingUpdate, pendingLayoutEffects, pendingEffects)) =>
            /\ comps' = comps /\ dom' = dom /\ rootComponent' = rootComponent
            /\ QueuesEmpty(pendingUpdate', pendingLayoutEffects', pendingEffects')]_vars

\* act(() => render(h(Both), container)) returned: the layout effect and the
\* post-commit effect of Both have been called once each; the after-paint
\* callback that render armed is still to come.
C24_Witness ==
    /\ log.op = "actReturn" /\ actDepth = 0 /\ tops = ActTops /\ steps = 2
    /\ rootComponent > 0 /\ TypeOf(comps, rootComponent) = "Both"
    /\ comps[rootComponent].hooks[2].runs = 1
    /\ comps[rootComponent].hooks[3].runs = 1
    /\ timers = <<roots>> /\ microtasks = <<>>

\* The step left the root as it was: its queues, its components and the DOM.
RootUnchanged ==
    UNCHANGED <<comps, dom, rootComponent, pendingUpdate, pendingLayoutEffects,
                pendingEffects, currentError>>

\* C25: an act call that exits while another act call is open flushes
\* nothing: the root and its queues are as before the exit; the exit that
\* brings actDepth back to zero flushes the root, after which the three
\* queues are empty unless the flush threw.
C25_OnlyOutermostFlushes ==
    [][/\ (log'.op \in {"actReturn", "actSettle"} /\ actDepth' > 0) => RootUnchanged
       /\ OutermostExit =>
            QueuesEmpty(pendingUpdate', pendingLayoutEffects', pendingEffects')]_vars

\* act(() => { act(() => { render(h(Both), container) }) ... }) after the
\* inner call returned: the post-commit effect of Both is still queued.
C25_Witness ==
    /\ log.op = "actReturn" /\ actDepth = 1 /\ callbacks = 1
    /\ tops = ActTops /\ rootComponent > 0
    /\ TypeOf(comps, rootComponent) = "Both"
    /\ pendingEffects = <<rootComponent>>
    /\ comps[rootComponent].hooks[3].runs = 0
    /\ timers = <<roots>>

\* The outer call of the two returned: the queued effect has been called.
C25_Flushed ==
    /\ log.op = "actReturn" /\ actDepth = 0 /\ steps = 3
    /\ tops = ActTops /\ rootComponent > 0
    /\ TypeOf(comps, rootComponent) = "Both"
    /\ pendingEffects = <<>>
    /\ comps[rootComponent].hooks[3].runs = 1

\* C26: actDepth is the number of act calls that are open, whose callback
\* is running or whose promise is pending, so it is zero again when a
\* callback threw or a promise rejected and no call is open; and once an act
\* call has thrown or rejected, the exit of an outermost act call still
\* flushes: it renders every mounted component that was queued for an update
\* and leaves the three queues empty.
C26_ActAfterThrow ==
    [][/\ actDepth' = callbacks' + log'.promises
       /\ (log.actThrew /\ OutermostExit) =>
            /\ QueuesEmpty(pendingUpdate', pendingLayoutEffects', pendingEffects')
            /\ \A c \in Elems(pendingUpdate) :
                  c \in Subtree(comps', rootComponent') => c \in Elems(log'.invoked)]_vars

\* An act call threw, and the act call after it, which rendered Both, has
\* returned: actDepth is zero and the effects of Both have been called.
C26_Witness ==
    /\ log.actThrew /\ log.op = "actReturn" /\ actDepth = 0 /\ steps = 3
    /\ tops = ActTops /\ rootComponent > 0
    /\ TypeOf(comps, rootComponent) = "Both"
    /\ comps[rootComponent].hooks[2].runs = 1
    /\ comps[rootComponent].hooks[3].runs = 1
    /\ pendingEffects = <<>>

\* C27: render constructs a Root only when the container holds none, and
\* the container holds a Root once render was called; a call of
\* unmountComponentAtNode that returns, returns true exactly when the
\* container held a Root; after it returned true the container is empty and
\* holds no Root; and a call on a container without a Root returns false.
C27_OneRootPerContainer ==
    [][/\ log'.op = "render" =>
            /\ roots' = IF activeRoots THEN roots ELSE roots + 1
            /\ activeRoots'
       /\ (log'.op = "unmountAtNode" /\ ~log'.threw) =>
            /\ log'.result = activeRoots
            /\ log'.result => (dom'[Container].kids = <<>> /\ ~activeRoots')
       /\ (log'.op = "unmountAtNode" /\ ~activeRoots) =>
            (~log'.threw /\ ~log'.result)]_vars

\* unmountComponentAtNode returned false for a container whose Root an
\* earlier call, which returned true, had unmounted with its Counter.
C27_Witness ==
    /\ log.op = "unmountAtNode" /\ ~log.result /\ ~log.threw
    /\ roots = 1 /\ ~activeRoots /\ steps = 4
    /\ Len(comps) > 0 /\ dom[Container].kids = <<>>

\* The host components with ref r that the step created and left mounted.
MountedWith(r) ==
    {c \in (Len(comps) + 1)..Len(comps') :
        /\ c \in Subtree(comps', rootComponent')
        /\ isValidElement(comps'[c].vnode)
        /\ isHostType(comps'[c].vnode.type)
        /\ HasRef(comps'[c].vnode.p)
        /\ comps'[c].vnode.p.ref = r}

\* The components with ref r that held node n and that the step unmounted.
UnmountedWith(r, n) ==
    {c \in MountedSet :
        /\ c \notin Subtree(comps', rootComponent')
        /\ isValidElement(comps[c].vnode)
        /\ HasRef(comps[c].vnode.p)
        /\ comps[c].vnode.p.ref = r
        /\ comps[c].dom = n}

\* The mounted host components whose vnode carries ref r after the step.
Carrying(r) ==
    {c \in Subtree(comps', rootComponent') :
        /\ isValidElement(comps'[c].vnode)
        /\ isHostType(comps'[c].vnode.type)
        /\ HasRef(comps'[c].vnode.p)
        /\ comps'[c].vnode.p.ref = r}

\* C28: after a render, a ref that a mounted host element carries holds
\* such an element; a ref changes only to an element mounted with it or,
\* when the element it pointed at was unmounted with it, to null; and the
\* render of null after the first render leaves the container empty and
\* every ref null.
C28_HostRefs ==
    [][log'.op = "render" =>
         /\ \A r \in 1..Len(refs) :
              /\ Carrying(r) # {} =>
                   refs'[r] \in {comps'[c].dom : c \in Carrying(r)}
              /\ refs'[r] # refs[r] =>
                   IF refs'[r] = NoNode THEN UnmountedWith(r, refs[r]) # {}
                   ELSE refs'[r] \in {comps'[c].dom : c \in MountedWith(r)}
         /\ (steps = 1 /\ log.op = "render" /\ rootComponent' = EmptyComp) =>
              /\ dom'[Container].kids = <<>>
              /\ \A r \in 1..Len(refs) : refs'[r] = NoNode]_vars

\* The same for the refs of the elements that the render mounted: what
\* _renderTree and _unmount do with a ref.
RefsAtMount ==
    [][log'.op = "render" =>
         /\ \A r \in 1..Len(refs) :
              /\ MountedWith(r) # {} =>
                   refs'[r] \in {comps'[c].dom : c \in MountedWith(r)}
              /\ refs'[r] # refs[r] =>
                   IF refs'[r] = NoNode THEN UnmountedWith(r, refs[r]) # {}
                   ELSE refs'[r] \in {comps'[c].dom : c \in MountedWith(r)}
         /\ (steps = 1 /\ log.op = "render" /\ rootComponent' = EmptyComp) =>
              /\ dom'[Container].kids = <<>>
              /\ \A r \in 1..Len(refs) : refs'[r] = NoNode]_vars

\* The list item with key 1 was replaced by an item with key 3 and the same
\* ref: the ref holds the new item, which was mounted before the old one was
\* unmounted, and the other ref holds the item that was kept.
C28_Witness ==
    /\ log.op = "render" /\ log.arg = 4 /\ tops = RefTops /\ steps = 2
    /\ log.removes = 1 /\ Len(comps) = 4
    /\ refs[1] = comps[4].dom /\ refs[2] = comps[3].dom
    /\ comps[2].dom # NoNode /\ comps[2].dom # refs[1]

\* render(null) after the first render: every ref is null again.
C28_Unmounted ==
    /\ log.op = "render" /\ tops = RefTops /\ steps = 2
    /\ rootComponent = EmptyComp /\ Len(comps) = 3
    /\ refs = <<NoNode, NoNode>>

\* C29: a dispatch whose reducer returns the state that the cell holds
\* changes neither the components nor the queues nor the armed callbacks,
\* so that nothing is rendered for it; a dispatch whose reducer returns
\* another state stores it in the cell and leaves the owning component in
\* the update queue.
C29_ReducerDispatch ==
    [][log'.op = "dispatch" =>
         IF reducer(comps[log'.arg].hooks[log'.cell].value, log'.action)
              = comps[log'.arg].hooks[log'.cell].value
           THEN /\ UNCHANGED <<comps, dom, pendingUpdate, pendingLayoutEffects,
                               pendingEffects, microtasks, timers>>
                /\ log'.invoked = <<>>
         ELSE /\ comps'[log'.arg].hooks[log'.cell].value
                   = reducer(comps[log'.arg].hooks[log'.cell].value, log'.action)
              /\ log'.arg \in Elems(pendingUpdate')
              /\ (microtasks' # <<>> \/ pendingUpdate # <<>>)]_vars

\* dispatch("ignore-me") on a counter that an earlier dispatch had brought to
\* 1 and the flush had rendered: nothing is queued.
C29_Witness ==
    /\ log.op = "dispatch" /\ log.action = "ignore-me" /\ tops = ReducerTops
    /\ Mounted(log.arg) /\ comps[log.arg].hooks[log.cell].value = 1
    /\ comps[log.arg].nrender = 2
    /\ pendingUpdate = <<>> /\ microtasks = <<>>

\* The render kept the memo component that stood at the root.
MemoRerendered ==
    /\ log'.op = "render" /\ ~log'.threw
    /\ rootComponent > 0 /\ rootComponent' = rootComponent
    /\ TypeOf(comps, rootComponent) = "Memo"

\* C30: when a render keeps a memo component, the wrapped function is not
\* called and the output and the DOM stay as they were if the props of the
\* render hold the same keys with the same values as the props of the last
\* call of the wrapped function, and it is called once, with the props of
\* the render, if they do not.
C30_MemoShallowEqual ==
    [][MemoRerendered =>
         IF shallowEqualBothWays(comps[rootComponent].invokedWith, tops[log'.arg].p)
           THEN /\ log'.wrapped = <<>>
                /\ comps'[rootComponent].output = comps[rootComponent].output
                /\ dom' = dom
         ELSE log'.wrapped = <<<<rootComponent, tops[log'.arg].p>>>>]_vars

\* The memo component was rendered a second time with the props of the
\* first render, in a new object, and the wrapped function was not called.
C30_Witness ==
    /\ log.op = "render" /\ tops = MemoTops /\ steps = 2 /\ log.arg = 1
    /\ rootComponent > 0 /\ comps[rootComponent].nrender = 2
    /\ log.wrapped = <<>>
    /\ comps[rootComponent].invokedWith = tops[1].p
    /\ comps[rootComponent].hooks[1].value.oid = 1

\* The previous sibling that the j-th child of a list is matched with
\* when every child takes the first sibling with its key that no earlier
\* child took: `prev` holds <<component, key>> pairs, `keys` the keys of the
\* children.  NoComp when there is none.
RECURSIVE FirstUnmatched(_, _, _)
FirstUnmatched(prev, keys, j) ==
    LET hit == {i \in 1..Len(prev) : prev[i][2] = Head(keys)}
        first == CHOOSE i \in hit : \A k \in hit : i <= k
    IN IF hit = {} THEN IF j = 1 THEN NoComp ELSE FirstUnmatched(prev, Tail(keys), j - 1)
       ELSE IF j = 1 THEN prev[first][1]
       ELSE FirstUnmatched(splice(prev, first), Tail(keys), j - 1)

\* The entries of the history of matches that belong to list n, in order.
MatchesOf(n) == SelectSeq(log.matched, LAMBDA e : e[1] = n)

\* How many calls of _unmount the step made for component c.
UnmountsOf(c) == Cardinality({i \in 1..Len(log.unmounts) : log.unmounts[i][1] = c})

\* The nodes that component c had when the step unmounted it.
NodesOf(c) == {node \in DOMAIN dom : \E i \in 1..Len(log.unmounts) : log.unmounts[i][1] = c /\ \E k \in 1..Len(log.unmounts[i][2]) : log.unmounts[i][2][k] = node}

\* The new children of a list diff: the children that the value `vnodes`
\* holds, a number or a string, 0 and "" included, being one text child.
NewChildren(vnodes) ==
    IF isEmptyVNode(vnodes) /\ ~Truthy(vnodes) THEN <<>> ELSE flattenChildren(vnodes)

\* The keys of the new children of list n of the step.
NewKeys(n) ==
    [j \in 1..Len(NewChildren(log.lists[n][4])) |->
        vnodeKey(NewChildren(log.lists[n][4])[j])]

\* C31: in every list diff of a step that returns normally, the j-th new
\* child is matched with the first previous sibling with its key that no
\* earlier child was matched with (with none when there is none), no
\* previous sibling is matched twice, and every previous sibling that no
\* child was matched with is unmounted exactly once and its host nodes are
\* out of the host tree.  emptyComponent, which stands for every empty
\* child, holds nothing to unmount.
C31_ListDiffMatching ==
    ~log.threw =>
      \A n \in 1..Len(log.lists) :
        /\ Len(MatchesOf(n)) = Len(NewKeys(n))
        /\ \A j \in 1..Len(NewKeys(n)) :
             /\ j <= Len(MatchesOf(n))
             /\ MatchesOf(n)[j][2] = NewKeys(n)[j]
             /\ MatchesOf(n)[j][3] = FirstUnmatched(log.lists[n][2], NewKeys(n), j)
        /\ \A j, k \in 1..Len(MatchesOf(n)) :
             j # k /\ MatchesOf(n)[j][3] \notin {NoComp, EmptyComp}
               => MatchesOf(n)[j][3] # MatchesOf(n)[k][3]
        /\ \A i \in 1..Len(log.lists[n][2]) :
             (/\ log.lists[n][2][i][1] # EmptyComp
              /\ \A j \in 1..Len(MatchesOf(n)) : MatchesOf(n)[j][3] # log.lists[n][2][i][1])
               => /\ UnmountsOf(log.lists[n][2][i][1]) = 1
                  /\ \A node \in NodesOf(log.lists[n][2][i][1]) : dom[node].parent = NoNode

\* A render of a list matched an unkeyed child with one of two unkeyed
\* previous siblings and unmounted a sibling that no child was matched with.
C31_Witness ==
    /\ log.op = "render" /\ ~log.threw /\ tops = UnkeyedTops
    /\ \E n \in 1..Len(log.lists) :
         /\ \E j \in 1..Len(MatchesOf(n)) :
              /\ MatchesOf(n)[j][2] = NullKey /\ MatchesOf(n)[j][3] > 0
              /\ \E i \in 1..Len(log.lists[n][2]) :
                   /\ log.lists[n][2][i][2] = NullKey
                   /\ log.lists[n][2][i][1] # MatchesOf(n)[j][3]
         /\ \E i \in 1..Len(log.lists[n][2]) :
              /\ \A j \in 1..Len(MatchesOf(n)) : MatchesOf(n)[j][3] # log.lists[n][2][i][1]
              /\ UnmountsOf(log.lists[n][2][i][1]) = 1

InvalidElement == "Object is not a valid element"

\* Whether a vnode holds, at any depth, a child that is no renderable.
RECURSIVE HoldsObj(_)
HoldsObj(v) ==
    CASE v.k = "obj" -> TRUE
      [] v.k = "elem" -> HoldsObj(v.ch)
      [] v.k = "arr" -> \E i \in 1..Len(v.items) : HoldsObj(v.items[i])
      [] OTHER -> FALSE

\* The errors that the handlers of error boundaries were called with.
Delivered == {log.handled[i][2] : i \in 1..Len(log.handled)}

\* C32: a hook type mismatch or a hook outside a component that a render or
\* an update flush raises, and the error of a child that is neither a
\* renderable nor a vnode, is the exception that the step ends with, and no
\* handler of an error boundary is called with it.
C32_ProgrammingErrorsThrown ==
    log.op \in {"render", "microtask"} =>
      /\ \A e \in {HookMismatch, HookOutsideError} :
           e \in Elems(log.raised) => log.threw /\ log.exc = e /\ e \notin Delivered
      /\ log.op = "render" /\ HoldsObj(tops[log.arg])
           => log.threw /\ log.exc = InvalidElement /\ InvalidElement \notin Delivered

\* A render below an error boundary raised a hook type mismatch.
C32_Witness ==
    /\ log.op = "render" /\ tops = ProgTops
    /\ HookMismatch \in Elems(log.raised)

\* What an immediate child contributes to the dom-roots of its parent: the
\* node of a host or text child, the cached dom-roots of a user-function
\* child, nothing for an empty child.
ChildRoots(c) ==
    IF c <= 0 THEN <<>>
    ELSE IF comps[c].dom # NoNode THEN <<comps[c].dom>>
    ELSE IF comps[c].domRootsNull THEN <<>>
    ELSE comps[c].domRoots

RECURSIVE RootsOfChildren(_)
RootsOfChildren(out) ==
    IF out = <<>> THEN <<>> ELSE ChildRoots(Head(out)) \o RootsOfChildren(Tail(out))

\* The mounted components of user functions.
MountedCustom ==
    {c \in MountedSet : isValidElement(comps[c].vnode) /\ ~isHostType(comps[c].vnode.type)}

\* C33: after a render and after an update flush that return normally, the
\* cached dom-roots of every mounted user-function component are the
\* concatenation, in order, of what its immediate children contribute.
C33_DomRootsCached ==
    (log.op \in {"render", "microtask"} /\ ~log.threw) =>
        \A c \in MountedCustom :
            /\ ~comps[c].domRootsNull
            /\ comps[c].domRoots = RootsOfChildren(comps[c].output)

\* An update flush re-rendered a Toggle on its own, which now holds two
\* nodes instead of the one it was mounted with, below a Fragment that the
\* flush did not render and whose dom-roots hold the two nodes.
C33_Witness ==
    /\ log.op = "microtask" /\ ~log.threw /\ tops = ToggleTops
    /\ \E c \in MountedCustom :
         /\ TypeOf(comps, c) = "Toggle" /\ c \in Elems(log.flushed)
         /\ comps[c].vnode.p.init = 1 /\ Len(comps[c].domRoots) = 2
         /\ comps[c].parent \in MountedCustom
         /\ comps[c].parent \notin Elems(log.invoked)
         /\ comps[comps[c].parent].domRoots = comps[c].domRoots

\* C34: shallowEqual(a, b) is true exactly when the two bags hold the same
\* keys with the same value under every key, and shallowEqual(b, a) is the
\* same, also for bags that hold a key whose value is undefined.
C34_ShallowEqualSymmetric ==
    log.op = "shallowEqual" =>
        /\ log.equal[1] = shallowEqualBothWays(log.bags[1], log.bags[2])
        /\ log.equal[2] = log.equal[1]

\* Two bags with the same keys and values, one of them undefined, compared
\* equal both ways.
C34_Witness ==
    /\ log.op = "shallowEqual" /\ log.equal = <<TRUE, TRUE>>
    /\ log.bags[1] = [x |-> "undefined", y |-> "a"]

\* The content of a host node: its tag, data and attributes and the content
\* of its children, in order.
RECURSIVE Html(_, _)
Html(d, n) ==
    [tag |-> d[n].tag, data |-> d[n].data, attr |-> d[n].attr,
     kids |-> [i \in 1..Len(d[n].kids) |-> Html(d, d[n].kids[i])]]

\* An empty container that holds no Root.
EmptyContainer ==
    [St EXCEPT !.comps = <<>>, !.dom = <<NewNode("container", "")>>,
               !.root = NoComp, !.pu = <<>>, !.ple = <<>>, !.pe = <<>>,
               !.microtasks = <<>>, !.timers = <<>>, !.err = NoError,
               !.active = FALSE, !.refs = <<NoNode, NoNode>>]

\* The programs whose components hold no state and no effects.
Stateless == {ListTops, UnkeyedTops, RefTops, PlainTops}

\* C35: in the programs without state and effects, after a render that
\* returns normally the content of the container is the content that the
\* render of the same vnode into an empty container produces, whatever was
\* rendered before.
C35_RenderIsLastVNode ==
    (log.op = "render" /\ ~log.threw /\ tops \in Stateless) =>
        Html(dom, Container)
          = Html(renderInto(EmptyContainer, tops[log.arg]).dom, Container)

\* A component that returned a number was rendered again and returns 0.
C35_Witness ==
    /\ log.op = "render" /\ ~log.threw /\ tops = PlainTops /\ steps = 2
    /\ log.arg = 2 /\ rootComponent > 0 /\ comps[rootComponent].nrender = 2

\* The components that the three queues hold.
Queued == Elems(pendingUpdate) \cup Elems(pendingLayoutEffects) \cup Elems(pendingEffects)

\* C36: after every step the components in the update, layout-effect and
\* post-commit-effect queues are user-function components mounted in the
\* tree, and no step calls the function or an effect body of a component
\* that was not mounted when the step began, or an effect body that was
\* pending when its component was unmounted.
C36_QueuesHoldMounted ==
    [][/\ \A c \in Queued' :
            /\ c \in Subtree(comps', rootComponent')
            /\ isValidElement(comps'[c].vnode) /\ ~isHostType(comps'[c].vnode.type)
       /\ ~log'.ranCancelled
       /\ \A c \in 1..Len(comps) :
            c \notin MountedSet =>
              /\ comps'[c].nrender = comps[c].nrender
              /\ \A i \in 1..Len(comps[c].hooks) :
                   comps'[c].hooks[i].runs = comps[c].hooks[i].runs]_vars

\* A render unmounted a component that was in the update queue and in the
\* queue of post-commit effects, and the queues are empty.
C36_Witness ==
    /\ log.op = "render" /\ ~log.threw /\ Queued = {}
    /\ \E i \in 1..Len(log.unmounts) :
         \E k \in 1..Len(comps[log.unmounts[i][1]].hooks) :
            /\ comps[log.unmounts[i][1]].hooks[k].cancelled
            /\ comps[log.unmounts[i][1]].hooks[k].type = "effect"

\* C37: outside act, a microtask flush is pending while the update queue of
\* the root holds a component and no flush is executing, and an after-paint
\* flush is pending while its queue of post-commit effects holds one, also
\* after a render or flush that ended by throwing.
C37_FlushesArmed ==
    /\ pendingUpdate # <<>> => roots \in Elems(microtasks)
    /\ pendingEffects # <<>> => roots \in Elems(timers)

\* C38: the in-flight error record of the root is empty whenever no render
\* or flush is executing, however the previous render or flush ended.
C38_NoErrorCarried == ~currentError.set

\* C39: after unmountComponentAtNode(container) completes, whether it
\* returned or threw, no root is registered for the container.
C39_UnmountUnregisters == log.op = "unmountAtNode" => ~activeRoots

\* C40: re-rendering a memo-wrapped component whose wrapped function calls
\* hooks never raises a hook type mismatch.
C40_MemoHooksAligned ==
    tops = MemoHookTops =>
       \A i \in 1..Len(log.raised) : log.raised[i] # HookMismatch

====
